---- MODULE Spec2Model ----
(***************************************************************************)
(* Model of the scrapo extraction pipeline (src/scraper/amazon.py,         *)
(* src/scraper/daraz.py, src/models/product.py), of the fetch with retries *)
(* (src/scraper/base.py), of the numeric price (src/analysis/processor.py) *)
(* and of the persistence (src/storage/repository.py).  Each operation has *)
(* its own specification over its own variables; the variables of the      *)
(* other operations stay at rest.                                          *)
(*                                                                         *)
(* A fetched document is a flat mini-DOM: a sequence of top-level nodes    *)
(* (candidate product cards), each holding a sequence of descendant        *)
(* elements (tag, classes, structural context, attributes, text).  CSS     *)
(* selectors are predicates over elements; select / select_one are the     *)
(* filter / first-match over document order.  Python strings are TLA+      *)
(* strings, Optional values are sequences of length 0 or 1.                *)
(***************************************************************************)
EXTENDS Integers, Sequences, FiniteSets, TLC

VARIABLES site, pc, idx, requests, doc, result, returns, onlyZero

\* WebsiteScraper.get_page: control position, the retry argument, the url requested,
\* the outcome of each attempt so far, the sleeps taken, the value returned.
VARIABLES fpc, retry, fetch_url, outcomes, slept, response

\* get_product_details: control position, the record object passed in (mutated in
\* place), its instance attributes that are no dataclass fields, the record and
\* attributes as they were at the call, the detail document served.
VARIABLES dpc, product, extras, before, page

\* extract_numeric_price / get_numeric_price: control position, the argument, the
\* outcome.
VARIABLES ppc, price_str, numeric

\* ProductRepository: control position, the files of output_dir, the wall clock in
\* seconds, the number of file writes so far, the records last loaded with the site
\* they were loaded for, the records last saved per site.
VARIABLES rpc, files, now, writes, loaded, lastSaved

scraperVars == <<pc, idx, requests, doc, result, returns, onlyZero>>

fetchVars == <<fpc, retry, fetch_url, outcomes, slept, response>>

detailVars == <<dpc, product, extras, before, page>>

priceVars == <<ppc, price_str, numeric>>

repoVars == <<rpc, files, now, writes, loaded, lastSaved>>

vars == <<site, scraperVars, fetchVars, detailVars, priceVars, repoVars>>

-----------------------------------------------------------------------------
(* Optional values: None is the empty sequence, a present value v is <<v>>. *)

None == <<>>

Some(v) == <<v>>

IsNone(o) == o = <<>>

Get(o) == o[1]

-----------------------------------------------------------------------------
(* Python string operations used by the scrapers. *)

\* s[i-1:j] (1-based, inclusive), clipped to the string as a Python slice is.
Slice(s, i, j) ==
  LET lo == IF i < 1 THEN 1 ELSE i
      hi == IF j > Len(s) THEN Len(s) ELSE j
  IN  IF lo > hi THEN "" ELSE SubSeq(s, lo, hi)

Ch(s, i) == Slice(s, i, i)

SpaceChars == {" "}

DigitChars == {"0", "1", "2", "3", "4", "5", "6", "7", "8", "9"}

IsSpace(c) == c \in SpaceChars

IsDigit(c) == c \in DigitChars

DigitVal(c) ==
  CASE c = "0" -> 0 [] c = "1" -> 1 [] c = "2" -> 2 [] c = "3" -> 3
    [] c = "4" -> 4 [] c = "5" -> 5 [] c = "6" -> 6 [] c = "7" -> 7
    [] c = "8" -> 8 [] c = "9" -> 9

DigitStr(d) == Ch("0123456789", d + 1)

\* str(n) for a non-negative integer n, as an f-string formats it.
RECURSIVE IntToStr(_)
IntToStr(n) == IF n < 10 THEN DigitStr(n) ELSE IntToStr(n \div 10) \o DigitStr(n % 10)

\* s.startswith(p)
StartsWith(s, p) == Len(s) >= Len(p) /\ Slice(s, 1, Len(p)) = p

\* s.endswith(p)
EndsWith(s, p) == Len(s) >= Len(p) /\ Slice(s, Len(s) - Len(p) + 1, Len(s)) = p

\* sub in s
Contains(s, sub) == \E i \in 1..(Len(s) - Len(sub) + 1) : Slice(s, i, i + Len(sub) - 1) = sub

\* s[:n]
Prefix(s, n) == IF Len(s) <= n THEN s ELSE SubSeq(s, 1, n)

RECURSIVE LStrip(_)
LStrip(s) == IF Len(s) > 0 /\ IsSpace(Ch(s, 1)) THEN LStrip(Slice(s, 2, Len(s))) ELSE s

RECURSIVE RStrip(_)
RStrip(s) == IF Len(s) > 0 /\ IsSpace(Ch(s, Len(s))) THEN RStrip(Slice(s, 1, Len(s) - 1)) ELSE s

\* s.strip()
Strip(s) == RStrip(LStrip(s))

\* Python truthiness of a str: non-empty.
Truthy(s) == Len(s) > 0

-----------------------------------------------------------------------------
(* Number parsing.  A float is held as an integer number of hundredths     *)
(* (the documents of the model carry at most two fractional digits).       *)

Min(S) == CHOOSE x \in S : \A y \in S : x <= y

\* End of the longest run s[i..j] all of whose characters are in C; i - 1 when s[i] is not.
RECURSIVE RunEnd(_, _, _)
RunEnd(s, i, C) == IF i <= Len(s) /\ Ch(s, i) \in C THEN RunEnd(s, i + 1, C) ELSE i - 1

RECURSIVE DigitsVal(_)
DigitsVal(s) == IF Len(s) = 0 THEN 0 ELSE 10 * DigitsVal(Slice(s, 1, Len(s) - 1)) + DigitVal(Ch(s, Len(s)))

\* Hundredths denoted by the fraction digits f ("5" -> 50, "25" -> 25, "" -> 0).
FracVal(f) ==
  IF Len(f) = 0 THEN 0
  ELSE IF Len(f) = 1 THEN 10 * DigitVal(Ch(f, 1))
  ELSE DigitsVal(Slice(f, 1, 2))

RECURSIVE RemoveCommas(_)
RemoveCommas(s) ==
  IF Len(s) = 0 THEN ""
  ELSE IF Ch(s, 1) = "," THEN RemoveCommas(Slice(s, 2, Len(s)))
  ELSE Ch(s, 1) \o RemoveCommas(Slice(s, 2, Len(s)))

DigitOrComma == DigitChars \cup {","}

\* float(re.search(r'(\d+(\.\d+)?)', text).group(1)), None when there is no match.
RatingMatch(text) ==
  LET D == {i \in 1..Len(text) : IsDigit(Ch(text, i))}
  IN  IF D = {} THEN None
      ELSE LET i == Min(D)
               j == RunEnd(text, i, DigitChars)
               k == IF j + 2 <= Len(text) /\ Ch(text, j + 1) = "." /\ IsDigit(Ch(text, j + 2))
                    THEN RunEnd(text, j + 2, DigitChars) ELSE j
           IN  Some(100 * DigitsVal(Slice(text, i, j)) + FracVal(Slice(text, j + 2, k)))

\* int(re.search(r'(\d+[\d,]*)', text).group(1).replace(',', '')), None when there is no match.
CountMatch(text) ==
  LET D == {i \in 1..Len(text) : IsDigit(Ch(text, i))}
  IN  IF D = {} THEN None
      ELSE LET i == Min(D)
               j == RunEnd(text, i, DigitOrComma)
           IN  Some(DigitsVal(RemoveCommas(Slice(text, i, j))))

\* re.compile(r'\d+[\d,]*\s*(ratings|reviews)').search(text) matches.
ReviewPattern(text) ==
  \E i \in 1..Len(text) :
    /\ IsDigit(Ch(text, i))
    /\ \E j \in i..RunEnd(text, i, DigitOrComma) :
         \E k \in j..RunEnd(text, j + 1, SpaceChars) :
            \/ Slice(text, k + 1, k + 7) = "ratings"
            \/ Slice(text, k + 1, k + 7) = "reviews"

\* The unsigned body digits[.digits] of a numeric literal, in hundredths; None otherwise.
UnsignedFloat(s) ==
  LET j == RunEnd(s, 1, DigitChars)
  IN  IF j = 0 THEN None
      ELSE IF j = Len(s) THEN Some(100 * DigitsVal(s))
      ELSE IF Ch(s, j + 1) = "." /\ RunEnd(s, j + 2, DigitChars) = Len(s)
           THEN Some(100 * DigitsVal(Slice(s, 1, j)) + FracVal(Slice(s, j + 2, Len(s))))
      ELSE None

\* float(s): None stands for ValueError.  Covers [ws][sign]digits[.digits][ws].
PyFloat(s) ==
  LET t == Strip(s)
  IN  IF Len(t) = 0 THEN None
      ELSE IF Ch(t, 1) = "-"
           THEN LET u == UnsignedFloat(Slice(t, 2, Len(t)))
                IN  IF IsNone(u) THEN None ELSE Some(0 - Get(u))
      ELSE IF Ch(t, 1) = "+" THEN UnsignedFloat(Slice(t, 2, Len(t)))
      ELSE UnsignedFloat(t)

\* int(s): None stands for ValueError.  Covers [ws][sign]digits[ws].
PyInt(s) ==
  LET t == Strip(s)
      body == IF Len(t) > 0 /\ Ch(t, 1) \in {"-", "+"} THEN Slice(t, 2, Len(t)) ELSE t
  IN  IF Len(body) = 0 \/ RunEnd(body, 1, DigitChars) # Len(body) THEN None
      ELSE IF Ch(t, 1) = "-" THEN Some(0 - DigitsVal(body))
      ELSE Some(DigitsVal(body))

-----------------------------------------------------------------------------
(* Markup nodes.  An element is [tag, cls, ctx, attrs, text]: cls its      *)
(* classes, ctx its structural position ("in:X" descendant of .X,          *)
(* "child:X" direct child of .X, "after:X" next sibling of .X), attrs a    *)
(* set of <<name, value>> pairs.                                           *)

El(tag, cls, ctx, attrs, text) ==
  [tag |-> tag, cls |-> cls, ctx |-> ctx, attrs |-> attrs, text |-> text]

\* elem.has_attr(n)
HasAttr(e, n) == \E p \in e.attrs : p[1] = n

\* elem[n]
Attr(e, n) == (CHOOSE p \in e.attrs : p[1] = n)[2]

\* elem.get_text()
GetText(e) == e.text

\* item.get_text() of a card: the concatenated text of its descendants.
RECURSIVE ConcatText(_)
ConcatText(els) == IF Len(els) = 0 THEN "" ELSE GetText(Head(els)) \o ConcatText(Tail(els))

\* The ASCII stand-in for the rupee sign U+20B9 of amazon.py line 121.
Rupee == "INR"

\* Does element e match the selector (or find() filter) named sel?
Matches(sel, e) ==
  CASE sel = ".a-size-medium, .a-size-base, .a-link-normal > span" ->
         \/ e.cls \cap {"a-size-medium", "a-size-base"} # {}
         \/ (e.tag = "span" /\ "child:a-link-normal" \in e.ctx)
    [] sel = "img[alt]" -> e.tag = "img" /\ HasAttr(e, "alt")
    [] sel = "a[title]" -> e.tag = "a" /\ HasAttr(e, "title")
    [] sel = "a[href]" -> e.tag = "a" /\ HasAttr(e, "href")
    [] sel = "img[src]" -> e.tag = "img" /\ HasAttr(e, "src")
    [] sel = ".a-price .a-offscreen" -> "a-offscreen" \in e.cls /\ "in:a-price" \in e.ctx
    [] sel = ".a-price-whole" -> "a-price-whole" \in e.cls
    [] sel = ".p13n-sc-price" -> "p13n-sc-price" \in e.cls
    [] sel = "[data-a-price-whole]" -> HasAttr(e, "data-a-price-whole")
    [] sel = "span:rupee" -> e.tag = "span" /\ Truthy(e.text) /\ Contains(e.text, Rupee)
    [] sel = "i.a-icon-star" -> e.tag = "i" /\ "a-icon-star" \in e.cls
    [] sel = ".a-star-medium-4" -> "a-star-medium-4" \in e.cls
    [] sel = "span[data-a-icon-alt*=out of 5 stars]" ->
         e.tag = "span" /\ HasAttr(e, "data-a-icon-alt")
                        /\ Contains(Attr(e, "data-a-icon-alt"), "out of 5 stars")
    [] sel = ".a-icon-alt" -> "a-icon-alt" \in e.cls
    [] sel = "class~star" -> \E c \in e.cls : Contains(c, "star")
    [] sel = "a.a-link-normal[title*=review]" ->
         e.tag = "a" /\ "a-link-normal" \in e.cls /\ HasAttr(e, "title")
                     /\ Contains(Attr(e, "title"), "review")
    [] sel = ".a-size-small[aria-label*=review]" ->
         "a-size-small" \in e.cls /\ HasAttr(e, "aria-label")
                                  /\ Contains(Attr(e, "aria-label"), "review")
    [] sel = "span[id*=customerReviews]" ->
         e.tag = "span" /\ HasAttr(e, "id") /\ Contains(Attr(e, "id"), "customerReviews")
    [] sel = "span:reviews" -> e.tag = "span" /\ ReviewPattern(e.text)
    [] sel = ".c16H9d, .c3KeDq, .c16TX_" -> e.cls \cap {"c16H9d", "c3KeDq", "c16TX_"} # {}
    [] sel = ".c16H9d, .c3KeDq" -> e.cls \cap {"c16H9d", "c3KeDq"} # {}
    [] sel = ".c13VH6, .c1-B2V" -> e.cls \cap {"c13VH6", "c1-B2V"} # {}
    [] sel = ".c13VH6, .c1-B2V, .c3gUW0" -> e.cls \cap {"c13VH6", "c1-B2V", "c3gUW0"} # {}
    [] sel = ".c3gUW0" -> "c3gUW0" \in e.cls
    [] sel = ".c1hkC1" -> "c1hkC1" \in e.cls
    [] sel = "span:npr" ->
         e.tag = "span" /\ Truthy(e.text)
           /\ (Contains(e.text, "Rs.") \/ Contains(e.text, "NRs") \/ Contains(e.text, "NPR"))
    [] sel = ".c3XbGJ" -> "c3XbGJ" \in e.cls
    [] sel = ".c3dn4k" -> "c3dn4k" \in e.cls
    [] sel = "[data-rating]" -> HasAttr(e, "data-rating")
    [] sel = ".c3XbGJ + span" -> e.tag = "span" /\ "after:c3XbGJ" \in e.ctx
    [] sel = ".c2JB4x" -> "c2JB4x" \in e.cls
    [] sel = "span[data-reviews]" -> e.tag = "span" /\ HasAttr(e, "data-reviews")
    [] sel = "li.a-carousel-card, div[data-asin]:not([data-asin=])" ->
         \/ (e.tag = "li" /\ "a-carousel-card" \in e.cls)
         \/ (e.tag = "div" /\ HasAttr(e, "data-asin") /\ Attr(e, "data-asin") # "")
    [] sel = ".a-carousel-card" -> "a-carousel-card" \in e.cls
    [] sel = "[data-asin]:not([data-asin=])" ->
         HasAttr(e, "data-asin") /\ Attr(e, "data-asin") # ""
    [] sel = ".feed-carousel-card" -> "feed-carousel-card" \in e.cls
    [] sel = ".Bm3ON, .c2iYAv" -> e.cls \cap {"Bm3ON", "c2iYAv"} # {}
    [] sel = ".c1ZEkM" -> "c1ZEkM" \in e.cls
    [] sel = ".c5TXIP" -> "c5TXIP" \in e.cls
    [] sel = ".card-jfy-item-wrapper, .slick-slide > div" ->
         \/ "card-jfy-item-wrapper" \in e.cls
         \/ (e.tag = "div" /\ "child:slick-slide" \in e.ctx)
    [] sel = ".c1_t2i, .c2iYAv" -> e.cls \cap {"c1_t2i", "c2iYAv"} # {}
    [] sel = "a" -> e.tag = "a"
    [] sel = "a, span" -> e.tag \in {"a", "span"}
    [] sel = "#productDescription, #feature-bullets, #aplus" ->
         HasAttr(e, "id") /\ Attr(e, "id") \in {"productDescription", "feature-bullets", "aplus"}
    [] sel = "#feature-bullets li, #detailBullets li, .a-unordered-list li" ->
         e.tag = "li"
           /\ e.ctx \cap {"in:#feature-bullets", "in:#detailBullets", "in:a-unordered-list"} # {}
    [] sel = "#availability, #outOfStock" ->
         HasAttr(e, "id") /\ Attr(e, "id") \in {"availability", "outOfStock"}
    [] sel = ".html-content, .pdp-product-desc, .pdp-mod-description" ->
         e.cls \cap {"html-content", "pdp-product-desc", "pdp-mod-description"} # {}
    [] sel = ".specification-keys, .pdp-product-highlights li, .key-features li" ->
         \/ "specification-keys" \in e.cls
         \/ (e.tag = "li" /\ e.ctx \cap {"in:pdp-product-highlights", "in:key-features"} # {})
    [] sel = ".quantity-content, .pdp-stock" -> e.cls \cap {"quantity-content", "pdp-stock"} # {}
    [] sel = ".seller-name, .pdp-seller-info-name" ->
         e.cls \cap {"seller-name", "pdp-seller-info-name"} # {}
    [] sel = ".pdp-product-price__discount, .discount-percentage" ->
         e.cls \cap {"pdp-product-price__discount", "discount-percentage"} # {}

\* node.select(sel): the matching descendants in document order.
Select(els, sel) == SelectSeq(els, LAMBDA e : Matches(sel, e))

\* node.select_one(sel) / node.find(...): the first match, None when there is none.
SelectOne(els, sel) ==
  LET m == Select(els, sel) IN IF Len(m) = 0 THEN None ELSE Some(m[1])

-----------------------------------------------------------------------------
(* Site configuration. *)

Sites == {"amazon_in", "daraz_np"}

\* config.py leaves SCRAPER_CONFIG["daraz_np"] empty; the Daraz base URL is the one
\* the adapter itself writes into its sentinel record.
BaseUrl(s) == IF s = "amazon_in" THEN "https://www.amazon.in" ELSE "https://www.daraz.np"

\* self.trending_pages
TrendingPages(s) ==
  IF s = "amazon_in"
  THEN <<"/gp/bestsellers/", "/gp/new-releases/", "/gp/movers-and-shakers/", "/deals/">>
  ELSE <<"/trending-products/", "/top-selling-products/">>

\* product_items[:20]
ListingCap == 20

\* carousel_items[:10]
HomepageCap == 10

\* potential_title[:100]
TitleCap == 100

\* TrendingProduct.source default
DefaultSource == "amazon.in"

-----------------------------------------------------------------------------
(* The record type. *)

\* TrendingProduct(...): the dataclass constructor with its defaults.
TrendingProduct(title, url, price, image_url, rating, review_count, rank, category, source) ==
  [title |-> title, url |-> url, price |-> price, rating |-> rating,
   review_count |-> review_count, image_url |-> image_url, rank |-> rank,
   category |-> category, availability |-> None, description |-> None,
   features |-> <<>>, source |-> source]

\* datetime.datetime.now().isoformat() at clock t
Isoformat(t) == "T" \o IntToStr(t)

\* The record as the constructor leaves it: extracted_at defaults to the time of
\* construction.
Stamped(p, t) ==
  [f \in DOMAIN p \cup {"extracted_at"} |-> IF f = "extracted_at" THEN Isoformat(t) ELSE p[f]]

-----------------------------------------------------------------------------
(* Field extraction shared by the two adapters. *)

\* title_elem = item.select_one(a) or item.select_one(b): a Tag is always truthy.
SelectOneOr(els, a, b) ==
  IF ~IsNone(SelectOne(els, a)) THEN SelectOne(els, a) ELSE SelectOne(els, b)

\* Title read off the located element; "" when no element was located.
ListingTitleOf(te) ==
  IF IsNone(te) THEN ""
  ELSE IF Get(te).tag = "img" /\ HasAttr(Get(te), "alt") THEN Attr(Get(te), "alt")
  ELSE Strip(GetText(Get(te)))

\* Mutant: the full-text fallback is taken even when that text is empty.
ListingTitle_NoSynth(els, sel, ident, i) ==
  LET title == ListingTitleOf(SelectOneOr(els, sel, "img[alt]"))
  IN  IF Truthy(title) THEN title ELSE Prefix(Strip(ConcatText(els)), TitleCap)

\* Mutant: the full text is truncated before it is stripped.
ListingTitle_CapBeforeStrip(els, sel, ident, i) ==
  LET title == ListingTitleOf(SelectOneOr(els, sel, "img[alt]"))
      potential == Strip(Prefix(ConcatText(els), TitleCap))
  IN  IF Truthy(title) THEN title
      ELSE IF Truthy(potential) THEN potential
      ELSE "Unknown Product " \o (IF ~IsNone(ident) /\ Truthy(Get(ident))
                                   THEN Get(ident) ELSE IntToStr(i + 1))

\* The title with the full-text and "Unknown Product" fallbacks; ident is the item
\* identifier (asin / product_id, None when not found), i the 0-based index.
ListingTitle(els, sel, ident, i) ==
  LET title == ListingTitleOf(SelectOneOr(els, sel, "img[alt]"))
      potential == Strip(ConcatText(els))
  IN  IF Truthy(title) THEN title
      ELSE IF Truthy(potential) THEN Prefix(potential, TitleCap)
      ELSE "Unknown Product " \o (IF ~IsNone(ident) /\ Truthy(Get(ident))
                                   THEN Get(ident) ELSE IntToStr(i + 1))

\* url = link_elem['href'], made absolute with the base URL.
LinkUrl(base, href) == IF StartsWith(href, "http") THEN href ELSE base \o href

\* The url of a listing card; withId / generic are the two synthesized forms.
ListingUrl(els, base, ident, idPath, generic) ==
  LET link == SelectOne(els, "a[href]")
  IN  IF ~IsNone(link) /\ HasAttr(Get(link), "href")
      THEN LinkUrl(base, Attr(Get(link), "href"))
      ELSE IF ~IsNone(ident) /\ Truthy(Get(ident))
           THEN base \o idPath \o Get(ident)
           ELSE base \o generic

\* for selector in price_selectors: the first selector locating an element ends the
\* loop with that element's stripped text.
RECURSIVE PriceLoop(_, _)
PriceLoop(els, sels) ==
  IF Len(sels) = 0 THEN None
  ELSE IF ~IsNone(SelectOne(els, Head(sels)))
       THEN Some(Strip(GetText(Get(SelectOne(els, Head(sels))))))
       ELSE PriceLoop(els, Tail(sels))

\* Price with the currency-span fallback taken when the loop left price falsy.
ListingPrice(els, sels, currencySpan) ==
  LET price == PriceLoop(els, sels)
      fb == SelectOne(els, currencySpan)
  IN  IF ~IsNone(price) /\ Truthy(Get(price)) THEN price
      ELSE IF ~IsNone(fb) THEN Some(Strip(GetText(Get(fb))))
      ELSE None

\* Amazon: for selector in rating_selectors, ended by the first element whose text
\* holds a number.
RECURSIVE AmazonRatingLoop(_, _)
AmazonRatingLoop(els, sels) ==
  IF Len(sels) = 0 THEN None
  ELSE LET e == SelectOne(els, Head(sels))
           m == IF IsNone(e) THEN None ELSE RatingMatch(Strip(GetText(Get(e))))
       IN  IF ~IsNone(m) THEN m ELSE AmazonRatingLoop(els, Tail(sels))

AmazonRatingSelectors ==
  <<"i.a-icon-star", ".a-star-medium-4", "span[data-a-icon-alt*=out of 5 stars]", ".a-icon-alt">>

\* Amazon rating: "if not rating" sends None and 0.0 alike to the title-attribute fallback.
AmazonRating(els) ==
  LET rating == AmazonRatingLoop(els, AmazonRatingSelectors)
      fb == SelectOne(els, "class~star")
  IN  IF ~IsNone(rating) /\ Get(rating) # 0 THEN rating
      ELSE IF ~IsNone(fb) /\ HasAttr(Get(fb), "title") /\ Truthy(Attr(Get(fb), "title"))
           THEN RatingMatch(Attr(Get(fb), "title"))
           ELSE rating

RECURSIVE AmazonReviewLoop(_, _)
AmazonReviewLoop(els, sels) ==
  IF Len(sels) = 0 THEN None
  ELSE LET e == SelectOne(els, Head(sels))
           m == IF IsNone(e) THEN None ELSE CountMatch(Strip(GetText(Get(e))))
       IN  IF ~IsNone(m) THEN m ELSE AmazonReviewLoop(els, Tail(sels))

AmazonReviewSelectors ==
  <<"a.a-link-normal[title*=review]", ".a-size-small[aria-label*=review]",
    "span[id*=customerReviews]">>

\* Amazon review count: "if not review_count" sends None and 0 alike to the fallback.
AmazonReviewCount(els) ==
  LET count == AmazonReviewLoop(els, AmazonReviewSelectors)
      fb == SelectOne(els, "span:reviews")
  IN  IF ~IsNone(count) /\ Get(count) # 0 THEN count
      ELSE IF ~IsNone(fb) THEN CountMatch(GetText(Get(fb)))
      ELSE count

\* The strategies a field's code evaluates on a card, as their 1-based positions in
\* priority order; the fallback after a loop over n selectors is strategy n + 1.
\* Price: the loop stops at the first selector locating an element, "if not price"
\* then decides on the fallback.
PriceTried(els, sels) ==
  LET hit == {k \in 1..Len(sels) : ~IsNone(SelectOne(els, sels[k]))}
      last == IF hit = {} THEN Len(sels) ELSE Min(hit)
      price == PriceLoop(els, sels)
  IN  [k \in 1..last |-> k]
        \o (IF ~IsNone(price) /\ Truthy(Get(price)) THEN <<>> ELSE <<Len(sels) + 1>>)

\* Amazon rating: the loop stops at the first selector whose element's text holds a
\* number, "if not rating" then decides on the fallback.
AmazonRatingTried(els) ==
  LET sels == AmazonRatingSelectors
      hit == {k \in 1..Len(sels) : ~IsNone(AmazonRatingLoop(els, <<sels[k]>>))}
      last == IF hit = {} THEN Len(sels) ELSE Min(hit)
      rating == AmazonRatingLoop(els, sels)
  IN  [k \in 1..last |-> k]
        \o (IF ~IsNone(rating) /\ Get(rating) # 0 THEN <<>> ELSE <<Len(sels) + 1>>)

\* Amazon review count: as for the rating, with "if not review_count".
AmazonReviewTried(els) ==
  LET sels == AmazonReviewSelectors
      hit == {k \in 1..Len(sels) : ~IsNone(AmazonReviewLoop(els, <<sels[k]>>))}
      last == IF hit = {} THEN Len(sels) ELSE Min(hit)
      count == AmazonReviewLoop(els, sels)
  IN  [k \in 1..last |-> k]
        \o (IF ~IsNone(count) /\ Get(count) # 0 THEN <<>> ELSE <<Len(sels) + 1>>)

\* Daraz: a data-rating attribute that parses wins, else the element's text.
RECURSIVE DarazRatingLoop(_, _)
DarazRatingLoop(els, sels) ==
  IF Len(sels) = 0 THEN None
  ELSE LET e == SelectOne(els, Head(sels))
           a == IF ~IsNone(e) /\ HasAttr(Get(e), "data-rating")
                THEN PyFloat(Attr(Get(e), "data-rating")) ELSE None
           m == IF IsNone(e) THEN None ELSE RatingMatch(Strip(GetText(Get(e))))
       IN  IF ~IsNone(a) THEN a
           ELSE IF ~IsNone(m) THEN m
           ELSE DarazRatingLoop(els, Tail(sels))

DarazRatingSelectors == <<".c3XbGJ", ".c3dn4k", "[data-rating]">>

DarazRating(els) == DarazRatingLoop(els, DarazRatingSelectors)

\* Daraz: a data-reviews attribute that parses wins, else the element's text.
RECURSIVE DarazReviewLoop(_, _)
DarazReviewLoop(els, sels) ==
  IF Len(sels) = 0 THEN None
  ELSE LET e == SelectOne(els, Head(sels))
           a == IF ~IsNone(e) /\ HasAttr(Get(e), "data-reviews")
                THEN PyInt(Attr(Get(e), "data-reviews")) ELSE None
           m == IF IsNone(e) THEN None ELSE CountMatch(Strip(GetText(Get(e))))
       IN  IF ~IsNone(a) THEN a
           ELSE IF ~IsNone(m) THEN m
           ELSE DarazReviewLoop(els, Tail(sels))

DarazReviewSelectors == <<".c3XbGJ + span", ".c2JB4x", "span[data-reviews]">>

DarazReviewCount(els) == DarazReviewLoop(els, DarazReviewSelectors)

\* Amazon image: the src of the first img[src].
AmazonImage(els) ==
  LET img == SelectOne(els, "img[src]")
  IN  IF ~IsNone(img) /\ HasAttr(Get(img), "src") THEN Some(Attr(Get(img), "src")) ELSE None

\* Daraz image: src, elif data-src, both read off the first img[src].
DarazImage(els) ==
  LET img == SelectOne(els, "img[src]")
  IN  IF ~IsNone(img) /\ HasAttr(Get(img), "src") THEN Some(Attr(Get(img), "src"))
      ELSE IF ~IsNone(img) /\ HasAttr(Get(img), "data-src") THEN Some(Attr(Get(img), "data-src"))
      ELSE None

\* Mutant: the first breadcrumb element is taken.
Category_First(crumb, linkSel) ==
  IF IsNone(crumb) THEN None
  ELSE LET links == Select(Get(crumb), linkSel)
       IN  IF Len(links) = 0 THEN None ELSE Some(Strip(GetText(links[1])))

\* Category: stripped text of the last breadcrumb element matching linkSel; crumb is
\* the page's breadcrumb node (None when the page has none).
Category(crumb, linkSel) ==
  IF IsNone(crumb) THEN None
  ELSE LET links == Select(Get(crumb), linkSel)
       IN  IF Len(links) = 0 THEN None ELSE Some(Strip(GetText(links[Len(links)])))

\* asin = item.get('data-asin'), else the first truthy attribute whose name holds 'asin'.
AmazonAsin(item) ==
  IF HasAttr(item, "data-asin") /\ Truthy(Attr(item, "data-asin"))
  THEN Some(Attr(item, "data-asin"))
  ELSE LET c == {p \in item.attrs : Contains(p[1], "asin") /\ Truthy(p[2])}
       IN  IF c = {} THEN None ELSE Some((CHOOSE p \in c : TRUE)[2])

\* product_id: the first truthy attribute whose name holds 'data-item-id'.
DarazProductId(item) ==
  LET c == {p \in item.attrs : Contains(p[1], "data-item-id") /\ Truthy(p[2])}
  IN  IF c = {} THEN None ELSE Some((CHOOSE p \in c : TRUE)[2])

AmazonPriceSelectors ==
  <<".a-price .a-offscreen", ".a-price-whole", ".p13n-sc-price", "[data-a-price-whole]">>

DarazPriceSelectors == <<".c13VH6, .c1-B2V", ".c3gUW0", ".c1hkC1">>

\* Mutant: the 0-based index is stored as the rank.
RankOf_ZeroBased(i) == i

\* rank = i + 1
RankOf(i) == i + 1

\* The record AmazonInScraper._extract_products_from_page builds from the card at
\* 0-based position i.
AmazonListingRecord(item, i, crumb) ==
  LET asin == AmazonAsin(item)
      base == BaseUrl("amazon_in")
  IN  TrendingProduct(
        ListingTitle(item.els, ".a-size-medium, .a-size-base, .a-link-normal > span", asin, i),
        ListingUrl(item.els, base, asin, "/dp/", "/s?k=trending"),
        ListingPrice(item.els, AmazonPriceSelectors, "span:rupee"),
        AmazonImage(item.els),
        AmazonRating(item.els),
        AmazonReviewCount(item.els),
        Some(RankOf(i)),
        Category(crumb, "a"),
        DefaultSource)

\* The record DarazNpScraper._extract_products_from_page builds from the card at
\* 0-based position i.
DarazListingRecord(item, i, crumb) ==
  LET pid == DarazProductId(item)
      base == BaseUrl("daraz_np")
  IN  TrendingProduct(
        ListingTitle(item.els, ".c16H9d, .c3KeDq, .c16TX_", pid, i),
        ListingUrl(item.els, base, pid, "/products/", "/trending-products/"),
        ListingPrice(item.els, DarazPriceSelectors, "span:npr"),
        DarazImage(item.els),
        DarazRating(item.els),
        DarazReviewCount(item.els),
        Some(RankOf(i)),
        Category(crumb, "a, span"),
        DefaultSource)

\* Homepage title element: select_one('img[alt]') or select_one(second).
\* Amazon reads alt, elif the title attribute, else the text.
AmazonHomepageTitle(els, i) ==
  LET te == SelectOneOr(els, "img[alt]", "a[title]")
      title == IF IsNone(te) THEN ""
               ELSE IF Get(te).tag = "img" /\ HasAttr(Get(te), "alt") THEN Attr(Get(te), "alt")
               ELSE IF HasAttr(Get(te), "title") THEN Attr(Get(te), "title")
               ELSE Strip(GetText(Get(te)))
  IN  IF Truthy(title) THEN title ELSE "Featured Product " \o IntToStr(i + 1)

\* Daraz reads alt, else the text.
DarazHomepageTitle(els, i) ==
  LET title == ListingTitleOf(SelectOneOr(els, "img[alt]", ".c16H9d, .c3KeDq"))
  IN  IF Truthy(title) THEN title ELSE "Featured Product " \o IntToStr(i + 1)

\* url = self.base_url, replaced by the card's link when it has one.
HomepageUrl(els, base) ==
  LET link == SelectOne(els, "a[href]")
  IN  IF ~IsNone(link) /\ HasAttr(Get(link), "href")
      THEN LinkUrl(base, Attr(Get(link), "href"))
      ELSE base

\* Daraz homepage price: one selector, no fallback.
DarazHomepagePrice(els) ==
  LET e == SelectOne(els, ".c13VH6, .c1-B2V, .c3gUW0")
  IN  IF IsNone(e) THEN None ELSE Some(Strip(GetText(Get(e))))

\* Mutant: the homepage record is built without a rank.
AmazonHomepageRecord_NoRank(item, i) ==
  TrendingProduct(AmazonHomepageTitle(item.els, i), HomepageUrl(item.els, BaseUrl("amazon_in")),
                  None, AmazonImage(item.els), None, None, None, None,
                  "amazon.in_homepage")

AmazonHomepageRecord(item, i) ==
  TrendingProduct(AmazonHomepageTitle(item.els, i), HomepageUrl(item.els, BaseUrl("amazon_in")),
                  None, AmazonImage(item.els), None, None, Some(RankOf(i)), None,
                  "amazon.in_homepage")

DarazHomepageRecord(item, i) ==
  TrendingProduct(DarazHomepageTitle(item.els, i), HomepageUrl(item.els, BaseUrl("daraz_np")),
                  DarazHomepagePrice(item.els), DarazImage(item.els), None, None,
                  Some(RankOf(i)), None, "daraz.np_homepage")

\* The "not found" record of the homepage tier: no rank is passed.
Sentinel(s) ==
  IF s = "amazon_in"
  THEN TrendingProduct("No trending products found", "https://www.amazon.in",
                       None, None, None, None, None, None, "amazon.in_not_found")
  ELSE TrendingProduct("No trending products found", "https://www.daraz.np",
                       None, None, None, None, None, None, "daraz.np_not_found")

-----------------------------------------------------------------------------
(* Page-level extraction.  A document is [ok, parseFault, nodes, crumb]:   *)
(* ok = get_page returned a response, parseFault = the markup library      *)
(* raised outside any card, nodes = the top-level nodes in document order  *)
(* (each an element with its descendants els and a flag fault = building   *)
(* its record raises), crumb = the breadcrumb node's children or None.     *)

ListingCandidates(s) ==
  IF s = "amazon_in"
  THEN <<"li.a-carousel-card, div[data-asin]:not([data-asin=])", ".a-carousel-card",
         "[data-asin]:not([data-asin=])">>
  ELSE <<".Bm3ON, .c2iYAv", ".c1ZEkM", ".c5TXIP">>

HomepageCandidates(s) ==
  IF s = "amazon_in"
  THEN <<".a-carousel-card", ".feed-carousel-card">>
  ELSE <<".card-jfy-item-wrapper, .slick-slide > div", ".c1_t2i, .c2iYAv">>

\* Mutant: the selections of all candidates are merged.
Locate_Union(nodes, cands) ==
  SelectSeq(nodes, LAMBDA e : \E k \in 1..Len(cands) : Matches(cands[k], e))

\* soup.select(c1) or soup.select(c2) or ...: the first non-empty selection.
RECURSIVE Locate(_, _)
Locate(nodes, cands) ==
  IF Len(cands) = 0 THEN <<>>
  ELSE IF Len(Select(nodes, Head(cands))) > 0 THEN Select(nodes, Head(cands))
  ELSE Locate(nodes, Tail(cands))

ListingRecord(s, item, i, crumb) ==
  IF s = "amazon_in" THEN AmazonListingRecord(item, i, crumb)
  ELSE DarazListingRecord(item, i, crumb)

HomepageRecord(s, item, i) ==
  IF s = "amazon_in" THEN AmazonHomepageRecord(item, i) ELSE DarazHomepageRecord(item, i)

\* The outcome of running a block: it returned value, or an exception left it.
Returned(v) == [raised |-> FALSE, value |-> v]

Raised == [raised |-> TRUE, value |-> <<>>]

\* try: body / except Exception: handler
TryExcept(body, handler) == IF body.raised THEN handler ELSE body

\* Mutant: a card without a price raises (price.strip() on None) and is dropped.
ListingCardBody_DropOnMiss(s, item, i, crumb) ==
  IF item.fault \/ IsNone(ListingRecord(s, item, i, crumb).price)
  THEN Raised ELSE Returned(<<ListingRecord(s, item, i, crumb)>>)

\* The body of the per-card try block: the list of records it appends.
ListingCardBody(s, item, i, crumb) ==
  IF item.fault THEN Raised ELSE Returned(<<ListingRecord(s, item, i, crumb)>>)

HomepageCardBody(s, item, i) ==
  IF item.fault THEN Raised ELSE Returned(<<HomepageRecord(s, item, i)>>)

\* Mutant: the per-card try/except is missing, a fault leaves the loop.
ListingCard_NoCatch(s, item, i, crumb) == ListingCardBody(s, item, i, crumb)

\* The per-card try/except: a card whose processing raises is logged and appends nothing.
ListingCard(s, item, i, crumb) == TryExcept(ListingCardBody(s, item, i, crumb), Returned(<<>>))

HomepageCard(s, item, i) == TryExcept(HomepageCardBody(s, item, i), Returned(<<>>))

\* The records appended by a sequence of per-card outcomes, in order.
RECURSIVE Appended(_)
Appended(outs) == IF Len(outs) = 0 THEN <<>> ELSE Head(outs).value \o Appended(Tail(outs))

\* The outcome of a loop whose iterations had the outcomes outs.
LoopOutcome(outs) ==
  IF \E k \in 1..Len(outs) : outs[k].raised THEN Raised ELSE Returned(Appended(outs))

\* for i, item in enumerate(items): iteration i (0-based) handles items[i + 1].
ListingLoop(s, items, crumb) ==
  LoopOutcome([k \in 1..Len(items) |-> ListingCard(s, items[k], k - 1, crumb)])

HomepageLoop(s, items) ==
  LoopOutcome([k \in 1..Len(items) |-> HomepageCard(s, items[k], k - 1)])

\* Mutant: the located cards are not truncated.
ListingItems_NoCap(s, d) == Locate(d.nodes, ListingCandidates(s))

\* product_items[:20]
ListingItems(s, d) == Prefix(Locate(d.nodes, ListingCandidates(s)), ListingCap)

\* carousel_items[:10]
HomepageItems(s, d) == Prefix(Locate(d.nodes, HomepageCandidates(s)), HomepageCap)

\* The outer try block of _extract_products_from_page: parsing, locating, the loop.
ListingBody(s, d) ==
  IF d.parseFault THEN Raised ELSE ListingLoop(s, ListingItems(s, d), d.crumb)

\* Mutant: the outer try/except is missing, a parse failure leaves the method.
ExtractProductsFromPage_NoCatch(s, d) ==
  IF ~d.ok THEN Returned(<<>>) ELSE ListingBody(s, d)

\* _extract_products_from_page
ExtractProductsFromPage(s, d) ==
  IF ~d.ok THEN Returned(<<>>)
  ELSE TryExcept(ListingBody(s, d), Returned(<<>>))

\* Mutant: the empty homepage result is returned as it is, without the sentinel.
HomepageBody_NoSentinel(s, d) ==
  IF d.parseFault THEN Raised ELSE HomepageLoop(s, HomepageItems(s, d))

\* The outer try block of _extract_products_from_homepage, with the sentinel branch.
HomepageBody(s, d) ==
  IF d.parseFault THEN Raised
  ELSE LET loop == HomepageLoop(s, HomepageItems(s, d))
       IN  IF loop.raised THEN Raised
           ELSE IF Len(loop.value) > 0 THEN loop
           ELSE Returned(<<Sentinel(s)>>)

\* _extract_products_from_homepage
ExtractProductsFromHomepage(s, d) ==
  IF ~d.ok THEN Returned(<<>>)
  ELSE TryExcept(HomepageBody(s, d), Returned(<<>>))

-----------------------------------------------------------------------------
(* The documents the fetch collaborator may serve. *)

\* Cards on a long page: more than either cap.
BigPage == 25

\* Cards on a short mixed page.
MaxShort == 3

Node(tag, cls, ctx, attrs, els, fault) ==
  [tag |-> tag, cls |-> cls, ctx |-> ctx, attrs |-> attrs, text |-> "", els |-> els,
   fault |-> fault]

Ten == "abcdefghij"

\* A text of 121 characters, with surrounding blanks.
LongText == " " \o Ten \o Ten \o Ten \o Ten \o Ten \o Ten \o Ten \o Ten \o Ten \o Ten \o Ten \o Ten \o "X "

AmazonEls ==
  { El("span", {"a-size-base"}, {}, {}, " Echo Dot "),
    El("span", {"a-size-medium"}, {}, {}, " "),
    El("span", {}, {"child:a-link-normal"}, {}, "Fire TV"),
    El("img", {}, {}, {<<"alt", "Kindle">>, <<"src", "https://img.example/k.jpg">>}, ""),
    El("img", {}, {}, {<<"alt", "">>}, ""),
    El("img", {"a-size-base"}, {}, {<<"data-src", "https://img.example/lazy.jpg">>}, ""),
    El("a", {}, {}, {<<"href", "/dp/B01">>}, ""),
    El("a", {}, {}, {<<"href", "https://www.amazon.in/dp/B02">>, <<"title", "Link title">>}, ""),
    El("a", {}, {}, {<<"href", "">>}, "more"),
    El("a", {}, {}, {<<"href", "httpd/manual.html">>}, ""),
    El("a", {"a-link-normal"}, {}, {<<"title", "See all reviews">>}, "1,234"),
    El("span", {"a-offscreen"}, {"in:a-price"}, {}, "INR499.00"),
    El("span", {"a-price-whole"}, {}, {}, ""),
    El("span", {"p13n-sc-price"}, {}, {}, "INR1,499.00"),
    El("div", {"p13n-sc-price"}, {}, {}, "1,499"),
    El("span", {}, {}, {}, " INR 250 "),
    El("i", {"a-icon-star"}, {}, {}, "4.5 out of 5 stars"),
    El("i", {"a-icon-star"}, {}, {<<"title", "3.0 stars">>}, ""),
    El("span", {"a-icon-alt"}, {}, {<<"title", "unrated">>}, "0 stars"),
    El("span", {}, {}, {<<"id", "acr-customerReviews">>}, "0"),
    El("span", {}, {}, {}, "56 ratings"),
    El("div", {}, {}, {}, LongText),
    El("div", {}, {}, {}, "") }

DarazEls ==
  { El("div", {"c16H9d"}, {}, {}, " Rice Cooker "),
    El("div", {"c3KeDq"}, {}, {}, ""),
    El("img", {}, {}, {<<"alt", "Phone">>, <<"src", "https://img.example/p.jpg">>}, ""),
    El("img", {}, {}, {<<"alt", "">>, <<"data-src", "https://img.example/lazy.jpg">>}, ""),
    El("img", {}, {}, {<<"src", "https://img.example/s.jpg">>,
                       <<"data-src", "https://img.example/lazy2.jpg">>}, ""),
    El("a", {}, {}, {<<"href", "/products/p1.html">>}, ""),
    El("a", {}, {}, {<<"href", "https://www.daraz.np/products/p2.html">>}, ""),
    El("a", {}, {}, {<<"href", "">>}, "more"),
    El("a", {}, {}, {<<"href", "httpd/manual.html">>}, ""),
    El("span", {"c13VH6"}, {}, {}, "Rs. 1,200"),
    El("span", {"c3gUW0"}, {}, {}, ""),
    El("span", {"c1hkC1"}, {}, {}, " Rs. 900 "),
    El("div", {"c1hkC1"}, {}, {}, "900"),
    El("span", {}, {}, {}, "NPR 50"),
    El("div", {"c3XbGJ"}, {}, {<<"data-rating", "4.2">>}, ""),
    El("div", {"c3XbGJ"}, {}, {<<"data-rating", "n/a">>}, "3 stars"),
    El("span", {"c3dn4k"}, {}, {}, "0"),
    El("div", {}, {}, {<<"data-rating", "-1">>}, ""),
    El("span", {}, {"after:c3XbGJ"}, {}, "(12)"),
    El("span", {"c2JB4x"}, {}, {}, "1,024 sold"),
    El("span", {}, {}, {<<"data-reviews", "-5">>}, ""),
    El("span", {}, {}, {<<"data-reviews", "many">>}, "7 reviews"),
    El("div", {}, {}, {}, LongText),
    El("div", {}, {}, {}, "") }

SiteEls(s) == IF s = "amazon_in" THEN AmazonEls ELSE DarazEls

\* Card contents: every sequence of at most two elements of the site's vocabulary.
Contents(s) ==
  {<<>>} \cup {<<e>> : e \in SiteEls(s)} \cup {<<e, f>> : e \in SiteEls(s), f \in SiteEls(s)}

\* Card shells: the tag, classes and attributes the card locators look at.
\* The first is located on listing pages and on the homepage of its site, the second
\* carries an item identifier.
Shells(s) ==
  IF s = "amazon_in"
  THEN << [tag |-> "li", cls |-> {"a-carousel-card"}, ctx |-> {}, attrs |-> {}],
          [tag |-> "div", cls |-> {}, ctx |-> {}, attrs |-> {<<"data-asin", "B0ASIN">>}],
          [tag |-> "div", cls |-> {"a-carousel-card"}, ctx |-> {},
           attrs |-> {<<"data-asin", "">>, <<"data-csa-asin", "B0ALT">>}],
          [tag |-> "span", cls |-> {}, ctx |-> {}, attrs |-> {<<"data-asin", "B0SPAN">>}],
          [tag |-> "div", cls |-> {"feed-carousel-card"}, ctx |-> {}, attrs |-> {}] >>
  ELSE << [tag |-> "div", cls |-> {"c2iYAv"}, ctx |-> {}, attrs |-> {}],
          [tag |-> "div", cls |-> {"Bm3ON"}, ctx |-> {}, attrs |-> {<<"data-item-id", "D100">>}],
          [tag |-> "div", cls |-> {"c1ZEkM"}, ctx |-> {}, attrs |-> {<<"data-item-id", "">>}],
          [tag |-> "div", cls |-> {"c5TXIP"}, ctx |-> {}, attrs |-> {}],
          [tag |-> "div", cls |-> {"card-jfy-item-wrapper"}, ctx |-> {}, attrs |-> {}],
          [tag |-> "div", cls |-> {}, ctx |-> {"child:slick-slide"}, attrs |-> {}] >>

Card(shell, els, fault) == Node(shell.tag, shell.cls, shell.ctx, shell.attrs, els, fault)

\* The cards of the mixed pages: one per shell, plus one whose processing raises.
MixCards(s) ==
  LET e == CHOOSE x \in SiteEls(s) : x.tag = "img" /\ HasAttr(x, "src") /\ HasAttr(x, "alt")
  IN  {Card(Shells(s)[k], <<e>>, FALSE) : k \in 1..Len(Shells(s))}
        \cup {Card(Shells(s)[1], <<e>>, TRUE)}

SeqsUpTo(S, n) == UNION {[1..k -> S] : k \in 0..n}

\* A long page: n cards cycling through the pattern pat.
LongNodes(pat, n) == [i \in 1..n |-> pat[((i - 1) % Len(pat)) + 1]]

LongPatterns(s) ==
  LET good == Card(Shells(s)[1], <<>>, FALSE)
      other == Card(Shells(s)[1], <<CHOOSE x \in SiteEls(s) : x.tag = "a" /\ x.text = "more">>, FALSE)
      bad == Card(Shells(s)[1], <<>>, TRUE)
  IN  {<<good>>, <<good, other>>, <<bad, good>>, <<bad>>, <<good, good, bad>>}

LongLengths == {HomepageCap, HomepageCap + 1, ListingCap, ListingCap + 1, BigPage}

Crumbs ==
  { None,
    Some(<<>>),
    Some(<<El("a", {}, {}, {}, "Home"), El("a", {}, {}, {}, " Electronics ")>>),
    Some(<<El("a", {}, {}, {}, "Books"), El("span", {}, {}, {}, "Fiction")>>),
    Some(<<El("span", {}, {}, {}, "Only span")>>) }

Page(nodes, crumb) == [ok |-> TRUE, parseFault |-> FALSE, nodes |-> nodes, crumb |-> crumb]

FetchFailed == [ok |-> FALSE, parseFault |-> FALSE, nodes |-> <<>>, crumb |-> None]

ParseFailed == [ok |-> TRUE, parseFault |-> TRUE, nodes |-> <<>>, crumb |-> None]

Docs(s) ==
  {FetchFailed, ParseFailed}
    \cup {Page(<<Card(Shells(s)[k], c, FALSE)>>, None) : k \in 1..2, c \in Contents(s)}
    \cup {Page(n, None) : n \in SeqsUpTo(MixCards(s), MaxShort)}
    \cup {Page(n, c) : n \in SeqsUpTo(MixCards(s), 1), c \in Crumbs}
    \cup {Page(LongNodes(p, MaxShort), c) : p \in LongPatterns(s), c \in Crumbs}
    \cup {Page(LongNodes(p, n), None) : p \in LongPatterns(s), n \in LongLengths}

-----------------------------------------------------------------------------------------------------------------------------------------------------
(* get_trending_products as a state machine: Invoke enters the loop over   *)
(* self.trending_pages, ListingPage is one iteration of it, Homepage the   *)
(* fallback call.  pc = "done" after a return, "raised" after an exception *)
(* left the method.  requests logs each get_page path with the number of   *)
(* records the page produced; doc is the document last served; onlyZero    *)
(* records that every document served so far was fetched and parsed and    *)
(* held no card.                                                           *)

\* Does the fetched and parsed document d hold no card for the candidates cands?
ZeroCards(d, cands) == d.ok /\ ~d.parseFault /\ Len(Locate(d.nodes, cands)) = 0

\* The operations not under way: each group of variables at rest.
ScraperIdle ==
  /\ pc = "idle"
  /\ idx = 0
  /\ requests = <<>>
  /\ doc = None
  /\ result = <<>>
  /\ returns = 0
  /\ onlyZero = TRUE

FetchIdle ==
  /\ fpc = "idle"
  /\ retry = 0
  /\ fetch_url = ""
  /\ outcomes = <<>>
  /\ slept = <<>>
  /\ response = None

DetailIdle ==
  /\ dpc = "idle"
  /\ product = None
  /\ extras = None
  /\ before = None
  /\ page = None

PriceIdle ==
  /\ ppc = "idle"
  /\ price_str = None
  /\ numeric = None

RepoIdle ==
  /\ rpc = "idle"
  /\ files = <<>>
  /\ now = 0
  /\ writes = 0
  /\ loaded = None
  /\ lastSaved = <<>>

Init ==
  /\ site \in Sites
  /\ ScraperIdle
  /\ FetchIdle /\ DetailIdle /\ PriceIdle /\ RepoIdle

Invoke ==
  /\ pc = "idle"
  /\ pc' = IF Len(TrendingPages(site)) > 0 THEN "listing" ELSE "homepage"
  /\ UNCHANGED <<site, idx, requests, doc, result, returns, onlyZero>>
  /\ UNCHANGED <<fetchVars, detailVars, priceVars, repoVars>>

\* Mutant: the loop lacks the early return and tries every listing page.
AfterListing_KeepGoing(products, tried, total) ==
  IF tried < total THEN "listing"
  ELSE IF Len(products) > 0 THEN "done"
  ELSE "homepage"

\* Mutant: the first empty listing page sends the pipeline straight to the homepage.
AfterListing_SkipToHomepage(products, tried, total) ==
  IF Len(products) > 0 THEN "done" ELSE "homepage"

\* The loop's control after page number `tried` of `total` produced `products`:
\* return them when non-empty, else go on to the next page, else fall through to the
\* homepage.
AfterListing(products, tried, total) ==
  IF Len(products) > 0 THEN "done"
  ELSE IF tried < total THEN "listing"
  ELSE "homepage"

\* Every document a listing request may be answered with, paired with the outcome of
\* _extract_products_from_page on it (tabulated once per site).
ListingOutcomes ==
  [s \in Sites |-> {[doc |-> d, out |-> ExtractProductsFromPage(s, d)] : d \in Docs(s)}]

\* The same for the homepage request and _extract_products_from_homepage.
HomepageOutcomes ==
  [s \in Sites |-> {[doc |-> d, out |-> ExtractProductsFromHomepage(s, d)] : d \in Docs(s)}]

ListingPage ==
  /\ pc = "listing"
  /\ idx < Len(TrendingPages(site))
  /\ \E o \in ListingOutcomes[site] :
       /\ doc' = Some(o.doc)
       /\ requests' = Append(requests, [path |-> TrendingPages(site)[idx + 1],
                                        n |-> Len(o.out.value)])
       /\ idx' = idx + 1
       /\ onlyZero' = (onlyZero /\ ZeroCards(o.doc, ListingCandidates(site)))
       /\ IF o.out.raised
          THEN pc' = "raised" /\ UNCHANGED <<result, returns>>
          ELSE /\ pc' = AfterListing(o.out.value, idx + 1, Len(TrendingPages(site)))
               /\ IF pc' = "done"
                  THEN result' = o.out.value /\ returns' = returns + 1
                  ELSE UNCHANGED <<result, returns>>
  /\ UNCHANGED site
  /\ UNCHANGED <<fetchVars, detailVars, priceVars, repoVars>>

Homepage ==
  /\ pc = "homepage"
  /\ \E o \in HomepageOutcomes[site] :
       /\ doc' = Some(o.doc)
       /\ requests' = Append(requests, [path |-> "/", n |-> Len(o.out.value)])
       /\ onlyZero' = (onlyZero /\ ZeroCards(o.doc, HomepageCandidates(site)))
       /\ IF o.out.raised
          THEN pc' = "raised" /\ UNCHANGED <<result, returns>>
          ELSE pc' = "done" /\ result' = o.out.value /\ returns' = returns + 1
  /\ UNCHANGED <<site, idx>>
  /\ UNCHANGED <<fetchVars, detailVars, priceVars, repoVars>>

Next == Invoke \/ ListingPage \/ Homepage

Spec == Init /\ [][Next]_vars

-----------------------------------------------------------------------------
(* WebsiteScraper.get_page as a state machine: GetPage is the call up to   *)
(* the loop header, Attempt one iteration of "for attempt in               *)
(* range(retry)", Exhausted the statements after the loop.  fpc =          *)
(* "returned" after a return, "raised" after an exception left the method. *)

\* Largest retry argument of the model.
MaxRetry == 4

\* The url_path arguments of the model: relative paths and a complete URL.
FetchPaths == {"/", "/gp/bestsellers/", "https://www.amazon.in/dp/B01"}

\* url = self.base_url + url_path if not url_path.startswith('http') else url_path
FetchUrl(base, url_path) == IF ~StartsWith(url_path, "http") THEN base \o url_path ELSE url_path

\* What one attempt can do: session.get and raise_for_status both pass, raise_for_status
\* raises HTTPError, session.get raises a RequestException (timeout, connection).
AttemptOutcomes == {"ok", "http_error", "timeout"}

\* sleep_time = backoff_factor * (2 ** attempt), in units of backoff_factor.
Backoff(attempt) == 2 ^ attempt

\* if attempt < retry - 1: the sleeps taken after the failure of attempt (0-based).
SleptAfter(sleeps, attempt, n) ==
  IF attempt < n - 1 THEN Append(sleeps, Backoff(attempt)) ELSE sleeps

\* Mutant: the loop runs over range(retry + 1).
AfterFailure_OneMore(attempt, n) == IF attempt + 1 < n + 1 THEN "attempt" ELSE "exhausted"

\* for attempt in range(retry): where control goes after the failure of attempt (0-based).
AfterFailure(attempt, n) == IF attempt + 1 < n THEN "attempt" ELSE "exhausted"

FetchInit ==
  /\ site \in Sites
  /\ FetchIdle
  /\ ScraperIdle /\ DetailIdle /\ PriceIdle /\ RepoIdle

GetPage ==
  /\ fpc = "idle"
  /\ \E path \in FetchPaths, n \in 0..MaxRetry :
       /\ retry' = n
       /\ fetch_url' = FetchUrl(BaseUrl(site), path)
       /\ fpc' = AfterFailure(-1, n)
  /\ UNCHANGED <<outcomes, slept, response>>
  /\ UNCHANGED <<site, scraperVars, detailVars, priceVars, repoVars>>

Attempt ==
  /\ fpc = "attempt"
  /\ \E o \in AttemptOutcomes :
       LET attempt == Len(outcomes)
       IN  /\ outcomes' = Append(outcomes, o)
           /\ IF o = "ok"
              THEN /\ response' = Some([url |-> fetch_url, attempt |-> attempt])
                   /\ fpc' = "returned"
                   /\ UNCHANGED slept
              ELSE /\ slept' = SleptAfter(slept, attempt, retry)
                   /\ fpc' = AfterFailure(attempt, retry)
                   /\ UNCHANGED response
  /\ UNCHANGED <<retry, fetch_url>>
  /\ UNCHANGED <<site, scraperVars, detailVars, priceVars, repoVars>>

Exhausted ==
  /\ fpc = "exhausted"
  /\ response' = None
  /\ fpc' = "returned"
  /\ UNCHANGED <<retry, fetch_url, outcomes, slept>>
  /\ UNCHANGED <<site, scraperVars, detailVars, priceVars, repoVars>>

FetchNext == GetPage \/ Attempt \/ Exhausted

\* An attempt ends (timeout=30) and a sleep ends: a call under way takes its next step.
FetchSpec == FetchInit /\ [][FetchNext]_vars /\ WF_vars(FetchNext)

-----------------------------------------------------------------------------
(* get_product_details.  A detail document is [ok, parseFault, faultAt,    *)
(* els, crumb]: ok = get_page returned a response, parseFault = the markup *)
(* library raised, faultAt = the step of the try block that raises        *)
(* before it assigns (0 = none; 1 description, 2 features, 3 availability, *)
(* 4 category, and on Daraz 5 seller, 6 discount), els = the page's        *)
(* elements in document order, crumb = the breadcrumb node's children or   *)
(* None.  The record object is [product, extras]: the dataclass fields and *)
(* the instance attributes that are no fields (seller,                     *)
(* discount_percentage; None = not set).  The object is mutated in place,  *)
(* statement by statement.                                                 *)

\* description = desc_elem.get_text().strip()[:500]
DescriptionCap == 500

\* feature_elems[:10]
FeatureCap == 10

\* len(feature_text) > 5
MinFeatureLen == 5

DescriptionSelector(s) ==
  IF s = "amazon_in" THEN "#productDescription, #feature-bullets, #aplus"
  ELSE ".html-content, .pdp-product-desc, .pdp-mod-description"

FeatureSelector(s) ==
  IF s = "amazon_in" THEN "#feature-bullets li, #detailBullets li, .a-unordered-list li"
  ELSE ".specification-keys, .pdp-product-highlights li, .key-features li"

AvailabilitySelector(s) ==
  IF s = "amazon_in" THEN "#availability, #outOfStock" ELSE ".quantity-content, .pdp-stock"

CrumbLinkSelector(s) == IF s = "amazon_in" THEN "a" ELSE "a, span"

\* Mutant: every feature element of the page is read.
Features_NoCap(els, sel) ==
  LET elems == Select(els, sel)
      texts == [k \in 1..Len(elems) |-> Strip(GetText(elems[k]))]
  IN  SelectSeq(texts, LAMBDA t : Truthy(t) /\ Len(t) > MinFeatureLen)

\* The features loop: the stripped texts, longer than 5, of the first 10 elements.
Features(els, sel) ==
  LET elems == Prefix(Select(els, sel), FeatureCap)
      texts == [k \in 1..Len(elems) |-> Strip(GetText(elems[k]))]
  IN  SelectSeq(texts, LAMBDA t : Truthy(t) /\ Len(t) > MinFeatureLen)

\* int(re.search(r'(\d+)%', text).group(1)), None when there is no match.
DiscountMatch(text) ==
  LET D == {i \in 1..Len(text) :
              /\ IsDigit(Ch(text, i))
              /\ RunEnd(text, i, DigitChars) < Len(text)
              /\ Ch(text, RunEnd(text, i, DigitChars) + 1) = "%"}
  IN  IF D = {} THEN None
      ELSE Some(DigitsVal(Slice(text, Min(D), RunEnd(text, Min(D), DigitChars))))

\* if desc_elem: product.description = desc_elem.get_text().strip()[:500]
WithDescription(s, p, els) ==
  LET e == SelectOne(els, DescriptionSelector(s))
  IN  IF IsNone(e) THEN p
      ELSE [p EXCEPT !.description = Some(Prefix(Strip(GetText(Get(e))), DescriptionCap))]

\* if features: product.features = features
WithFeatures(s, p, els) ==
  LET f == Features(els, FeatureSelector(s))
  IN  IF Len(f) > 0 THEN [p EXCEPT !.features = f] ELSE p

\* if avail_elem: product.availability = avail_elem.get_text().strip()
WithAvailability(s, p, els) ==
  LET e == SelectOne(els, AvailabilitySelector(s))
  IN  IF IsNone(e) THEN p ELSE [p EXCEPT !.availability = Some(Strip(GetText(Get(e))))]

\* if not product.category: the last breadcrumb link's text, when there is one.
WithCategory(s, p, crumb) ==
  IF ~IsNone(p.category) /\ Truthy(Get(p.category)) THEN p
  ELSE IF IsNone(Category(crumb, CrumbLinkSelector(s))) THEN p
  ELSE [p EXCEPT !.category = Category(crumb, CrumbLinkSelector(s))]

\* Daraz: if seller_elem: product.seller = seller_elem.get_text().strip()
WithSeller(s, x, els) ==
  LET seller == SelectOne(els, ".seller-name, .pdp-seller-info-name")
  IN  IF s = "amazon_in" \/ IsNone(seller) THEN x
      ELSE [x EXCEPT !.seller = Some(Strip(GetText(Get(seller))))]

\* Daraz: if discount_match: product.discount_percentage = int(discount_match.group(1))
WithDiscount(s, x, els) ==
  LET disc == SelectOne(els, ".pdp-product-price__discount, .discount-percentage")
      pct == IF IsNone(disc) THEN None ELSE DiscountMatch(Strip(GetText(Get(disc))))
  IN  IF s = "amazon_in" \/ IsNone(pct) THEN x ELSE [x EXCEPT !.discount_percentage = pct]

NewObject(p) == [product |-> p, extras |-> [seller |-> None, discount_percentage |-> None]]

\* The number of steps of the try block after parsing.
EnrichSteps(s) == IF s = "amazon_in" THEN 4 ELSE 6

\* The object after the first n steps of the try block ran on the parsed document d.
Enriched(s, o, d, n) ==
  LET p1 == IF n >= 1 THEN WithDescription(s, o.product, d.els) ELSE o.product
      p2 == IF n >= 2 THEN WithFeatures(s, p1, d.els) ELSE p1
      p3 == IF n >= 3 THEN WithAvailability(s, p2, d.els) ELSE p2
      p4 == IF n >= 4 THEN WithCategory(s, p3, d.crumb) ELSE p3
      x5 == IF n >= 5 THEN WithSeller(s, o.extras, d.els) ELSE o.extras
      x6 == IF n >= 6 THEN WithDiscount(s, x5, d.els) ELSE x5
  IN  [product |-> p4, extras |-> x6]

\* Mutant: the steps work on a copy that replaces the object only when all ran.
EnrichBody_OnCopy(s, o, d) ==
  IF d.parseFault \/ d.faultAt > 0 THEN [raised |-> TRUE, value |-> o]
  ELSE Returned(Enriched(s, o, d, EnrichSteps(s)))

\* The try block of get_product_details on the object o and the document d: whether
\* an exception left it, and the object as the block left it.
EnrichBody(s, o, d) ==
  IF d.parseFault THEN [raised |-> TRUE, value |-> o]
  ELSE IF d.faultAt > 0 THEN [raised |-> TRUE, value |-> Enriched(s, o, d, d.faultAt - 1)]
  ELSE Returned(Enriched(s, o, d, EnrichSteps(s)))

\* Mutant: a failed fetch clears the fields the detail page would have supplied.
GetProductDetails_ClearOnFailure(s, o, d) ==
  IF ~d.ok
  THEN [o EXCEPT !.product.description = None, !.product.features = <<>>,
                 !.product.availability = None, !.product.category = None]
  ELSE EnrichBody(s, o, d).value

\* Mutant: the enriched record is built anew, at the time of the call.
GetProductDetails_Rebuilt(s, o, d) ==
  IF ~d.ok THEN o
  ELSE [EnrichBody(s, o, d).value EXCEPT !.product.extracted_at = Isoformat(1)]

\* get_product_details: the object as the call leaves it (it is also the return
\* value); the try block returns it, and "except Exception" logs and returns it as
\* the block left it.
GetProductDetails(s, o, d) ==
  IF ~d.ok THEN o ELSE EnrichBody(s, o, d).value

\* A text of more than 500 characters.
LongDescription == LongText \o LongText \o LongText \o LongText \o LongText

AmazonDetailEls ==
  { El("div", {}, {}, {<<"id", "productDescription">>}, " A fine device. "),
    El("div", {}, {}, {<<"id", "feature-bullets">>}, ""),
    El("div", {}, {}, {<<"id", "aplus">>}, LongDescription),
    El("li", {}, {"in:#feature-bullets"}, {}, " Fast charging "),
    El("li", {}, {"in:a-unordered-list"}, {}, "USB-C"),
    El("li", {}, {"in:#detailBullets"}, {}, "Weight 1kg"),
    El("span", {}, {}, {<<"id", "availability">>}, " In stock "),
    El("div", {}, {}, {<<"id", "outOfStock">>}, ""),
    El("p", {}, {}, {}, "other") }

DarazDetailEls ==
  { El("div", {"html-content"}, {}, {}, " A fine cooker. "),
    El("div", {"pdp-product-desc"}, {}, {}, ""),
    El("div", {"pdp-mod-description"}, {}, {}, LongDescription),
    El("span", {"specification-keys"}, {}, {}, " Capacity 2L "),
    El("li", {}, {"in:key-features"}, {}, "Steel"),
    El("div", {"pdp-stock"}, {}, {}, " Only 3 left "),
    El("div", {"quantity-content"}, {}, {}, ""),
    El("a", {"seller-name"}, {}, {}, " Kathmandu Store "),
    El("span", {"pdp-product-price__discount"}, {}, {}, "-25% off"),
    El("span", {"discount-percentage"}, {}, {}, "sale") }

DetailEls(s) == IF s = "amazon_in" THEN AmazonDetailEls ELSE DarazDetailEls

DetailPage(els, crumb) ==
  [ok |-> TRUE, parseFault |-> FALSE, faultAt |-> 0, els |-> els, crumb |-> crumb]

\* More feature elements than the cap, and more long texts than the cap: every sixth
\* text is short.
ManyFeatures(s) ==
  LET f == CHOOSE e \in DetailEls(s) : Matches(FeatureSelector(s), e) /\ Len(Strip(e.text)) > MinFeatureLen
      g == CHOOSE e \in DetailEls(s) : Matches(FeatureSelector(s), e) /\ Len(Strip(e.text)) <= MinFeatureLen
  IN  [i \in 1..(FeatureCap + 3) |-> IF i % 6 = 0 THEN g ELSE f]

\* A page with one element for every step of the try block, and its breadcrumb.
FullPage(s) ==
  IF s = "amazon_in"
  THEN << El("div", {}, {}, {<<"id", "productDescription">>}, " A fine device. "),
          El("li", {}, {"in:#detailBullets"}, {}, "Weight 1kg"),
          El("li", {}, {"in:#feature-bullets"}, {}, " Fast charging "),
          El("span", {}, {}, {<<"id", "availability">>}, " In stock ") >>
  ELSE << El("div", {"html-content"}, {}, {}, " A fine cooker. "),
          El("span", {"specification-keys"}, {}, {}, " Capacity 2L "),
          El("div", {"pdp-stock"}, {}, {}, " Only 3 left "),
          El("a", {"seller-name"}, {}, {}, " Kathmandu Store "),
          El("span", {"pdp-product-price__discount"}, {}, {}, "-25% off") >>

FullCrumb == Some(<<El("a", {}, {}, {}, "Home"), El("a", {}, {}, {}, " Electronics ")>>)

\* The answers to the detail-page request: no response, an unparsable one, pages of
\* many features, a full page and the same page with a fault at each step, pages of
\* at most one element, pages of two description elements, empty pages with each
\* breadcrumb.
DetailDocs(s) ==
  { [ok |-> FALSE, parseFault |-> FALSE, faultAt |-> 0, els |-> <<>>, crumb |-> None],
    [ok |-> TRUE, parseFault |-> TRUE, faultAt |-> 0, els |-> <<>>, crumb |-> None],
    DetailPage(ManyFeatures(s), None),
    DetailPage(FullPage(s), FullCrumb) }
    \cup {[DetailPage(FullPage(s), FullCrumb) EXCEPT !.faultAt = n] : n \in 1..EnrichSteps(s)}
    \cup {DetailPage(els, None) : els \in SeqsUpTo(DetailEls(s), 1)}
    \cup {DetailPage(<<e, f>>, None) :
            e \in {x \in DetailEls(s) : Matches(DescriptionSelector(s), x) /\ x.text = ""},
            f \in {x \in DetailEls(s) : Matches(DescriptionSelector(s), x) /\ x.text # ""}}
    \cup {DetailPage(<<>>, c) : c \in Crumbs}

\* The records get_product_details is called with, constructed at clock 0: the
\* listing record of an empty card with an item identifier, without and with a
\* category, and the sentinel.
Products(s) ==
  {Stamped(TrendingProduct("Unknown Product " \o (IF s = "amazon_in" THEN "B0ASIN" ELSE "D100"),
                           BaseUrl(s) \o (IF s = "amazon_in" THEN "/dp/B0ASIN"
                                          ELSE "/products/D100"),
                           None, None, None, None, Some(1), c, DefaultSource), 0) :
     c \in {None, Some("Electronics")}}
    \cup {Stamped(Sentinel(s), 0)}

DetailsInit ==
  /\ site \in Sites
  /\ dpc = "idle"
  /\ product \in Products(site)
  /\ extras = NewObject(product).extras
  /\ before = None
  /\ page = None
  /\ ScraperIdle /\ FetchIdle /\ PriceIdle /\ RepoIdle

\* One call of get_product_details on the record object, answered with document d.
GetProductDetailsCall ==
  /\ \E d \in DetailDocs(site) :
       \E o \in {GetProductDetails(site, [product |-> product, extras |-> extras], d)} :
         /\ product' = o.product
         /\ extras' = o.extras
         /\ page' = Some(d)
  /\ before' = Some([product |-> product, extras |-> extras])
  /\ dpc' = "returned"
  /\ UNCHANGED <<site, scraperVars, fetchVars, priceVars, repoVars>>

DetailsNext == GetProductDetailsCall

DetailsSpec == DetailsInit /\ [][DetailsNext]_vars

-----------------------------------------------------------------------------
(* Numeric price: ProductAnalyzer.extract_numeric_price,                   *)
(* TrendingProduct.get_numeric_price and utils.extract_numeric.  A float   *)
(* result is held exactly as [num, exp], the number num / 10^exp.          *)

NumericChars == DigitChars \cup {"."}

\* Mutant: the pattern is [^\d], the decimal point is removed as well.
RECURSIVE ReSubNonNumeric_DropPoint(_)
ReSubNonNumeric_DropPoint(s) ==
  IF Len(s) = 0 THEN ""
  ELSE (IF Ch(s, 1) \in DigitChars THEN Ch(s, 1) ELSE "")
         \o ReSubNonNumeric_DropPoint(Slice(s, 2, Len(s)))

\* re.sub(r'[^\d.]', '', s)
RECURSIVE ReSubNonNumeric(_)
ReSubNonNumeric(s) ==
  IF Len(s) = 0 THEN ""
  ELSE (IF Ch(s, 1) \in NumericChars THEN Ch(s, 1) ELSE "")
         \o ReSubNonNumeric(Slice(s, 2, Len(s)))

\* float(s) for a string s of digits and points: digits, digits., .digits and
\* digits.digits are literals, anything else raises ValueError.
FloatOfNumeric(s) ==
  LET j == RunEnd(s, 1, DigitChars)
      k == RunEnd(s, j + 2, DigitChars)
  IN  IF Len(s) = 0 THEN Raised
      ELSE IF j = Len(s) THEN Returned([num |-> DigitsVal(s), exp |-> 0])
      ELSE IF Ch(s, j + 1) = "." /\ k = Len(s) /\ Len(s) > 1
           THEN Returned([num |-> DigitsVal(Slice(s, 1, j) \o Slice(s, j + 2, k)),
                          exp |-> k - (j + 1)])
      ELSE Raised

\* The try block around float(numeric_str): the value, or None on ValueError.
FloatOrNone(numeric_str) ==
  LET f == FloatOfNumeric(numeric_str)
  IN  TryExcept(IF f.raised THEN Raised ELSE Returned(Some(f.value)), Returned(None))

\* ProductAnalyzer.extract_numeric_price(price_str)
ExtractNumericPrice(p) ==
  IF IsNone(p) \/ ~Truthy(Get(p)) THEN Returned(None)
  ELSE FloatOrNone(ReSubNonNumeric(Get(p)))

\* TrendingProduct.get_numeric_price() of a record whose price is p
GetNumericPrice(p) ==
  IF IsNone(p) \/ ~Truthy(Get(p)) THEN Returned(None)
  ELSE FloatOrNone(ReSubNonNumeric(Get(p)))

\* Mutant: the pattern of the utility is [^\d], the decimal point is removed as well.
ExtractNumeric_DropPoint(p) ==
  IF IsNone(p) \/ ~Truthy(Get(p)) THEN Returned(None)
  ELSE FloatOrNone(ReSubNonNumeric_DropPoint(Get(p)))

\* utils.extract_numeric(text)
ExtractNumeric(p) ==
  IF IsNone(p) \/ ~Truthy(Get(p)) THEN Returned(None)
  ELSE FloatOrNone(ReSubNonNumeric(Get(p)))

\* Longest generated price string.
MaxPriceLen == 3

PriceAlphabet == {"1", "0", ".", ",", "R"}

RECURSIVE Joined(_)
Joined(cs) == IF Len(cs) = 0 THEN "" ELSE Head(cs) \o Joined(Tail(cs))

\* The price arguments of the model: absent, every short string over the alphabet,
\* and prices as the adapters store them.
PriceInputs ==
  {None}
    \cup {Some(Joined(cs)) : cs \in SeqsUpTo(PriceAlphabet, MaxPriceLen)}
    \cup {Some("INR1,499.00"), Some("Rs. 1,200"), Some(" INR 250 "), Some("1.2.3"), Some("12.50")}

PriceInit ==
  /\ site \in Sites
  /\ ppc = "idle"
  /\ price_str \in PriceInputs
  /\ numeric = None
  /\ ScraperIdle /\ FetchIdle /\ DetailIdle /\ RepoIdle

ExtractNumericPriceCall ==
  /\ ppc = "idle"
  /\ numeric' = Some(ExtractNumericPrice(price_str))
  /\ ppc' = "extracted"
  /\ UNCHANGED price_str
  /\ UNCHANGED <<site, scraperVars, fetchVars, detailVars, repoVars>>

GetNumericPriceCall ==
  /\ ppc = "idle"
  /\ numeric' = Some(GetNumericPrice(price_str))
  /\ ppc' = "got"
  /\ UNCHANGED price_str
  /\ UNCHANGED <<site, scraperVars, fetchVars, detailVars, repoVars>>

ExtractNumericCall ==
  /\ ppc = "idle"
  /\ numeric' = Some(ExtractNumeric(price_str))
  /\ ppc' = "util"
  /\ UNCHANGED price_str
  /\ UNCHANGED <<site, scraperVars, fetchVars, detailVars, repoVars>>

PriceNext == ExtractNumericPriceCall \/ GetNumericPriceCall \/ ExtractNumericCall

PriceSpec == PriceInit /\ [][PriceNext]_vars

-----------------------------------------------------------------------------
(* Persistence: TrendingProduct.to_dict / from_dict and ProductRepository. *)
(* A file is [name, content, mtime]; content is the JSON document written, *)
(* a tree of [t, v] nodes; mtime is the position of the write among all    *)
(* writes (st_mtime orders the writes).  The wall clock now counts         *)
(* seconds.                                                                *)

\* The dataclass fields and the Python type of each.
FieldType ==
  [title |-> "str", url |-> "str", price |-> "opt_str", rating |-> "opt_float",
   review_count |-> "opt_int", image_url |-> "opt_str", rank |-> "opt_int",
   category |-> "opt_str", availability |-> "opt_str", description |-> "opt_str",
   features |-> "list_str", source |-> "str", extracted_at |-> "str"]

\* Mutant: extracted_at is not among the fields from_dict passes on.
ValidFields_NoStamp == DOMAIN FieldType \ {"extracted_at"}

\* valid_fields = {f.name for f in cls.__dataclass_fields__.values()}
ValidFields == DOMAIN FieldType

\* to_dict: asdict(self), the fields by name.
ToDict(p) == [f \in DOMAIN FieldType |-> p[f]]

\* A node of the JSON document: t its kind, s / n / a the string, number or array it
\* carries (the parts its kind does not use are empty).
JNode(t, str, num, arr) == [t |-> t, s |-> str, n |-> num, a |-> arr]

\* json.dump of one field value of Python type ty.
JsonOf(ty, v) ==
  CASE ty = "str" -> JNode("string", v, 0, <<>>)
    [] ty = "list_str" ->
         JNode("array", "", 0, [k \in 1..Len(v) |-> JNode("string", v[k], 0, <<>>)])
    [] ty = "opt_str" ->
         IF IsNone(v) THEN JNode("null", "", 0, <<>>) ELSE JNode("string", Get(v), 0, <<>>)
    [] ty = "opt_int" ->
         IF IsNone(v) THEN JNode("null", "", 0, <<>>) ELSE JNode("int", "", Get(v), <<>>)
    [] ty = "opt_float" ->
         IF IsNone(v) THEN JNode("null", "", 0, <<>>) ELSE JNode("real", "", Get(v), <<>>)

\* json.load of one member into the value a field of Python type ty holds.
PyOf(ty, j) ==
  CASE j.t = "null" -> None
    [] j.t = "array" -> [k \in 1..Len(j.a) |-> j.a[k].s]
    [] j.t = "string" -> IF ty = "str" THEN j.s ELSE Some(j.s)
    [] j.t \in {"int", "real"} -> Some(j.n)

\* json.dump(products_dict, f): an array of objects.
JsonDump(dicts) ==
  [k \in 1..Len(dicts) |-> [f \in DOMAIN dicts[k] |-> JsonOf(FieldType[f], dicts[k][f])]]

\* json.load(f): the list of dictionaries.
JsonLoad(content) ==
  [k \in 1..Len(content) |-> [f \in DOMAIN content[k] |-> PyOf(FieldType[f], content[k][f])]]

\* The dataclass defaults of the optional fields at clock t.
FieldDefaults(t) ==
  [price |-> None, rating |-> None, review_count |-> None, image_url |-> None,
   rank |-> None, category |-> None, availability |-> None, description |-> None,
   features |-> <<>>, source |-> DefaultSource, extracted_at |-> Isoformat(t)]

\* from_dict at clock t: cls(**filtered_data); TypeError when title or url is missing.
FromDict(data, t) ==
  LET filtered == DOMAIN data \cap ValidFields
  IN  IF ~({"title", "url"} \subseteq filtered) THEN Raised
      ELSE Returned([f \in DOMAIN FieldType |->
                       IF f \in filtered THEN data[f] ELSE FieldDefaults(t)[f]])

\* The site names the callers pass (main.py), the keys of the scraper table.
SiteNames == Sites

\* timestamp = datetime.datetime.now().strftime("%Y%m%d_%H%M%S")
Timestamp(t) == "20240101_00000" \o IntToStr(t)

\* filename = f"{site_name}_trending_{timestamp}.json"
Filename(site_name, t) == site_name \o "_trending_" \o Timestamp(t) \o ".json"

\* output_dir.glob(f"{site_name}_trending_*.json")
Glob(fs, site_name) ==
  {f \in fs : /\ StartsWith(f.name, site_name \o "_trending_")
              /\ EndsWith(f.name, ".json")
              /\ Len(f.name) >= Len(site_name \o "_trending_") + Len(".json")}

\* open(filepath, 'w') and json.dump: the file is created or replaced.
Written(fs, name, content, mtime) ==
  {f \in fs : f.name # name} \cup {[name |-> name, content |-> content, mtime |-> mtime]}

\* Mutant: the oldest matching file is taken.
GetLatestFile_Oldest(fs, site_name) ==
  LET m == Glob(fs, site_name)
  IN  IF m = {} THEN None ELSE Some(CHOOSE f \in m : \A g \in m : f.mtime <= g.mtime)

\* get_latest_file: the matching file of greatest st_mtime, None when none matches.
GetLatestFile(fs, site_name) ==
  LET m == Glob(fs, site_name)
  IN  IF m = {} THEN None ELSE Some(CHOOSE f \in m : \A g \in m : f.mtime >= g.mtime)

\* load_products at clock t: [] when reading or from_dict raises.
LoadProducts(f, t) ==
  LET dicts == JsonLoad(f.content)
      outs == [k \in 1..Len(dicts) |-> FromDict(dicts[k], t)]
  IN  TryExcept(IF \E k \in 1..Len(outs) : outs[k].raised THEN Raised
                ELSE Returned([k \in 1..Len(outs) |-> outs[k].value]),
                Returned(<<>>)).value

\* load_latest_products at clock t
LoadLatestProducts(fs, site_name, t) ==
  IF IsNone(GetLatestFile(fs, site_name)) THEN <<>>
  ELSE LoadProducts(Get(GetLatestFile(fs, site_name)), t)

\* Writes per run of the model, and the last clock value.
MaxSaves == 2

MaxClock == 2

\* The records saved: a listing record as the Amazon adapter builds it from a card
\* with a title, a price, a rating and a review link, the same record enriched, and
\* the sentinel; all constructed at clock 0.
SavedRecords ==
  LET rich == TrendingProduct("Echo Dot", "https://www.amazon.in/dp/B0ASIN",
                              Some("INR499.00"), None, Some(450), Some(1234), Some(1),
                              None, DefaultSource)
      enriched == [rich EXCEPT !.features = <<"Fast charging", "Weight 1kg">>,
                               !.description = Some("A fine device."),
                               !.availability = Some("")]
  IN  <<Stamped(rich, 0), Stamped(enriched, 0), Stamped(Sentinel("daraz_np"), 0)>>

\* The lists passed to save_products: none, one and two records.
RecordLists ==
  {<<>>, <<SavedRecords[3]>>, <<SavedRecords[2], SavedRecords[1]>>,
   <<SavedRecords[1], SavedRecords[2]>>}

RepoInit ==
  /\ site \in Sites
  /\ rpc = "idle"
  /\ files = {}
  /\ now = 0
  /\ writes = 0
  /\ loaded = None
  /\ lastSaved = [s \in SiteNames |-> None]
  /\ ScraperIdle /\ FetchIdle /\ DetailIdle /\ PriceIdle

\* save_products(products, site_name)
SaveProducts ==
  /\ writes < MaxSaves
  /\ \E products \in RecordLists, site_name \in SiteNames :
       /\ files' = Written(files, Filename(site_name, now),
                           JsonDump([k \in 1..Len(products) |-> ToDict(products[k])]),
                           writes + 1)
       /\ lastSaved' = [lastSaved EXCEPT ![site_name] = Some(products)]
  /\ writes' = writes + 1
  /\ rpc' = "saved"
  /\ UNCHANGED <<now, loaded>>
  /\ UNCHANGED <<site, scraperVars, fetchVars, detailVars, priceVars>>

\* load_latest_products(site_name)
LoadLatest ==
  /\ \E site_name \in SiteNames :
       loaded' = Some([site_name |-> site_name,
                       products |-> LoadLatestProducts(files, site_name, now)])
  /\ rpc' = "loaded"
  /\ UNCHANGED <<files, now, writes, lastSaved>>
  /\ UNCHANGED <<site, scraperVars, fetchVars, detailVars, priceVars>>

\* A second passes.
Tick ==
  /\ now < MaxClock
  /\ now' = now + 1
  /\ UNCHANGED <<rpc, files, writes, loaded, lastSaved>>
  /\ UNCHANGED <<site, scraperVars, fetchVars, detailVars, priceVars>>

RepoNext == SaveProducts \/ LoadLatest \/ Tick

RepoSpec == RepoInit /\ [][RepoNext]_vars

-----------------------------------------------------------------------------
(* Properties. *)

Pages == TrendingPages(site)

NReq == Len(requests)

\* The last request was for a listing page / for the homepage.
LastIsListing == NReq >= 1 /\ NReq <= Len(Pages)

LastIsHomepage == NReq = Len(Pages) + 1

\* The document last served was fetched and parsed.
LastParsed == ~IsNone(doc) /\ Get(doc).ok /\ ~Get(doc).parseFault

IsSentinel(r) == EndsWith(r.source, "_not_found")

\* C1: get_trending_products never returns an empty sequence; when no listing page
\* and not the homepage produces a record the result is one sentinel record.
C1_NeverEmpty ==
  pc = "done" =>
    /\ Len(result) >= 1
    /\ (LastIsHomepage /\ (~LastParsed \/ Len(HomepageItems(site, Get(doc))) = 0))
         => (Len(result) = 1 /\ IsSentinel(result[1]))

\* C2: when every listing page and the homepage were fetched and parsed and each held
\* zero cards, the result is exactly one record whose source ends in "_not_found".
C2_FullExhaustion ==
  (pc = "done" /\ onlyZero) => (Len(result) = 1 /\ EndsWith(result[1].source, "_not_found"))

C2_Witness == pc = "done" /\ onlyZero /\ LastIsHomepage /\ Len(result) = 1

\* C3: listing pages are requested in configured order; only the last request can have
\* produced records, and then the invocation has returned exactly those records: the
\* first producing listing page is never followed by another page or the homepage.
C3_FirstProducingPageWins ==
  /\ \A k \in 1..NReq : k <= Len(Pages) => requests[k].path = Pages[k]
  /\ \A k \in 1..NReq :
       requests[k].n > 0 => (k = NReq /\ pc = "done" /\ Len(result) = requests[k].n)
  /\ (pc = "done" /\ LastIsListing)
       => (Len(result) > 0 /\ result = ExtractProductsFromPage(site, Get(doc)).value)

\* P1 held no card, P2 produced three records.
C3_Witness ==
  /\ pc = "done"
  /\ NReq = 2
  /\ requests[1].n = 0
  /\ requests[2].n = 3
  /\ Len(result) = 3

\* C4: the pipeline is a linear chain: no path is requested twice, the homepage is
\* requested only as the request after the last listing page and only when every
\* listing page yielded zero records, and the invocation returns at most once, being
\* done exactly when it has returned.
C4_LinearChain ==
  /\ \A j, k \in 1..NReq : requests[j].path = requests[k].path => j = k
  /\ NReq <= Len(Pages) + 1
  /\ \A k \in 1..NReq :
       requests[k].path = "/" =>
         /\ k = Len(Pages) + 1
         /\ \A j \in 1..(k - 1) : requests[j].n = 0 /\ requests[j].path = Pages[j]
  /\ returns <= 1
  /\ (pc = "done") <=> (returns = 1)
  /\ pc \in {"listing", "homepage"} => idx = NReq

C4_Witness == pc = "done" /\ LastIsHomepage /\ returns = 1 /\ Len(result) > 1

\* C5: a listing page whose fetch or parse failed contributes no record, the pipeline
\* moves on to the next listing page or to the homepage without returning, and no
\* exception leaves get_trending_products.
C5_PageFaultNotFatal ==
  /\ pc # "raised"
  /\ (LastIsListing /\ ~LastParsed) =>
       /\ requests[NReq].n = 0
       /\ pc = (IF NReq < Len(Pages) THEN "listing" ELSE "homepage")
       /\ returns = 0

C5_Witness == pc = "homepage" /\ ~IsNone(doc) /\ Get(doc).ok /\ Get(doc).parseFault

\* The records of the first n of the located cards cands, none of which faults.
FirstRecordsAre(n, all, listing) ==
  /\ Len(result) = n
  /\ \A k \in 1..n :
       result[k] = IF listing THEN ListingRecord(site, all[k], k - 1, Get(doc).crumb)
                   ELSE HomepageRecord(site, all[k], k - 1)

\* C6: a listing page yields at most 20 records and the homepage at most 10; when the
\* located cards (25, say) exceed the cap and none faults, the records returned are
\* exactly those of the first 20 (10) cards in document order.
C6_CardCap ==
  /\ LastIsListing => requests[NReq].n <= ListingCap
  /\ LastIsHomepage => requests[NReq].n <= HomepageCap
  /\ (LastIsListing /\ LastParsed) =>
       LET all == Locate(Get(doc).nodes, ListingCandidates(site))
       IN  (Len(all) >= 1 /\ \A k \in 1..Len(all) : ~all[k].fault) =>
             /\ pc = "done"
             /\ FirstRecordsAre(IF Len(all) > ListingCap THEN ListingCap ELSE Len(all), all, TRUE)
  /\ (LastIsHomepage /\ LastParsed) =>
       LET all == Locate(Get(doc).nodes, HomepageCandidates(site))
       IN  (Len(all) >= 1 /\ \A k \in 1..Len(all) : ~all[k].fault) =>
             /\ pc = "done"
             /\ FirstRecordsAre(IF Len(all) > HomepageCap THEN HomepageCap ELSE Len(all), all, FALSE)

C6_Witness ==
  /\ pc = "done"
  /\ LastIsListing
  /\ Len(Locate(Get(doc).nodes, ListingCandidates(site))) = BigPage
  /\ Len(result) = ListingCap

\* C7 (as claimed): every returned record, the sentinel included, has an integer
\* rank of at least 1.
C7_EveryRankAtLeastOne ==
  \A k \in 1..Len(result) : ~IsNone(result[k].rank) /\ Get(result[k].rank) >= 1

\* C7 (amended): every returned record built from a listing-page or homepage card has
\* an integer rank of at least 1; the sentinel record, and only it, has no rank.
C7_RankAtLeastOneUnlessSentinel ==
  \A k \in 1..Len(result) :
    IF IsSentinel(result[k]) THEN IsNone(result[k].rank)
    ELSE ~IsNone(result[k].rank) /\ Get(result[k].rank) >= 1

C7_Witness ==
  /\ pc = "done"
  /\ LastIsHomepage
  /\ Len(result) = 2
  /\ result[1].rank = Some(1)
  /\ result[2].rank = Some(2)

\* The capped card sequence of the document last served.
LastItems ==
  IF LastIsListing THEN ListingItems(site, Get(doc)) ELSE HomepageItems(site, Get(doc))

\* C8: each returned card record carries rank p = i + 1 where p is the 1-based
\* position, in the capped card sequence, of the card it was built from.
C8_RankIsPositionPlusOne ==
  (pc = "done" /\ LastParsed) =>
    \A j \in 1..Len(result) :
      IsSentinel(result[j]) \/
        LET p == Get(result[j].rank)
        IN  /\ ~IsNone(result[j].rank)
            /\ p \in 1..Len(LastItems)
            /\ ~LastItems[p].fault
            /\ result[j] = IF LastIsListing
                           THEN ListingRecord(site, LastItems[p], p - 1, Get(doc).crumb)
                           ELSE HomepageRecord(site, LastItems[p], p - 1)
            /\ \A h \in 1..(j - 1) : Get(result[h].rank) < p

\* A card skipped at position 1, so the first record comes from 0-based position 1.
C8_Witness ==
  /\ pc = "done"
  /\ LastIsListing
  /\ Len(result) = 2
  /\ result[1].rank = Some(2)
  /\ result[2].rank = Some(3)

\* C9: every returned record has a non-empty title and a non-empty url.
C9_TitleAndUrlNonEmpty ==
  \A k \in 1..Len(result) : Len(result[k].title) > 0 /\ Len(result[k].url) > 0

\* A card with no title element, no text, no link and no identifier was returned.
C9_Witness ==
  /\ pc = "done"
  /\ LastIsListing
  /\ Len(result) = 1
  /\ Get(doc).nodes[1].els = <<>>
  /\ result[1].title = "Unknown Product 1"
  /\ result[1].url = BaseUrl(site) \o (IF site = "amazon_in" THEN "/s?k=trending"
                                        ELSE "/trending-products/")

\* Every strategy of the three optional fields misses on the card's content els: it
\* locates no element, or the element it locates holds no value.
NoText(els, sel) == IsNone(SelectOne(els, sel)) \/ Strip(GetText(Get(SelectOne(els, sel)))) = ""

NoNumber(els, sel) ==
  IsNone(SelectOne(els, sel)) \/ IsNone(RatingMatch(GetText(Get(SelectOne(els, sel)))))

NoAttrValue(els, sel, a) ==
  \/ IsNone(SelectOne(els, sel))
  \/ ~HasAttr(Get(SelectOne(els, sel)), a)
  \/ IsNone(RatingMatch(Attr(Get(SelectOne(els, sel)), a)))

AllStrategiesMiss(s, els) ==
  IF s = "amazon_in"
  THEN /\ \A k \in 1..Len(AmazonPriceSelectors) : NoText(els, AmazonPriceSelectors[k])
       /\ IsNone(SelectOne(els, "span:rupee"))
       /\ \A k \in 1..Len(AmazonRatingSelectors) : NoNumber(els, AmazonRatingSelectors[k])
       /\ NoAttrValue(els, "class~star", "title")
       /\ \A k \in 1..Len(AmazonReviewSelectors) : NoNumber(els, AmazonReviewSelectors[k])
       /\ IsNone(SelectOne(els, "span:reviews"))
  ELSE /\ \A k \in 1..Len(DarazPriceSelectors) : NoText(els, DarazPriceSelectors[k])
       /\ IsNone(SelectOne(els, "span:npr"))
       /\ \A k \in 1..Len(DarazRatingSelectors) :
            NoNumber(els, DarazRatingSelectors[k])
              /\ NoAttrValue(els, DarazRatingSelectors[k], "data-rating")
       /\ \A k \in 1..Len(DarazReviewSelectors) :
            NoNumber(els, DarazReviewSelectors[k])
              /\ NoAttrValue(els, DarazReviewSelectors[k], "data-reviews")

\* C10: a listing card on which every price, rating and review-count strategy misses
\* is not dropped: the page returns a record for it with rank = position + 1, the
\* three fields absent, and title and url populated.
C10_FieldMissKeepsCard ==
  (LastIsListing /\ LastParsed) =>
    \A p \in 1..Len(LastItems) :
      (~LastItems[p].fault /\ AllStrategiesMiss(site, LastItems[p].els)) =>
        /\ pc = "done"
        /\ \E j \in 1..Len(result) :
             /\ result[j].rank = Some(p)
             /\ IsNone(result[j].price)
             /\ IsNone(result[j].rating)
             /\ IsNone(result[j].review_count)
             /\ Len(result[j].title) > 0
             /\ Len(result[j].url) > 0

\* A returned card with a title and a link but no price, rating or review markup.
C10_Witness ==
  /\ pc = "done"
  /\ LastIsListing
  /\ Len(result) = 1
  /\ Len(Get(doc).nodes) = 1
  /\ Len(Get(doc).nodes[1].els) = 2
  /\ AllStrategiesMiss(site, Get(doc).nodes[1].els)
  /\ IsNone(result[1].price) /\ IsNone(result[1].rating) /\ IsNone(result[1].review_count)
  /\ result[1].rank = Some(1)

\* The site identifier of an adapter.
SiteIdentifier(s) == IF s = "amazon_in" THEN "amazon.in" ELSE "daraz.np"

\* C13: every returned record's source is the adapter's site identifier: bare on a
\* listing-page record, with "_homepage" on a homepage record, with "_not_found" on
\* the sentinel; for both adapters.
C13_SourceIsSiteIdentifier ==
  (pc = "done" /\ LastParsed) =>
    \A j \in 1..Len(result) :
      result[j].source =
        IF LastIsListing THEN SiteIdentifier(site)
        ELSE IF Len(LastItems) = 0 THEN SiteIdentifier(site) \o "_not_found"
        ELSE SiteIdentifier(site) \o "_homepage"

\* C14: in every returned record review_count is absent or an integer >= 0.
C14_ReviewCountNonNegative ==
  \A j \in 1..Len(result) :
    IsNone(result[j].review_count) \/ Get(result[j].review_count) >= 0

\* What one strategy yields on a card, whatever the control flow around it: the
\* stripped text, the number or the count read off the element sel locates.
TextValue(els, sel) ==
  IF NoText(els, sel) THEN None ELSE Some(Strip(GetText(Get(SelectOne(els, sel)))))

NumberValue(els, sel) ==
  IF IsNone(SelectOne(els, sel)) THEN None
  ELSE RatingMatch(Strip(GetText(Get(SelectOne(els, sel)))))

CountValue(els, sel) ==
  IF IsNone(SelectOne(els, sel)) THEN None
  ELSE CountMatch(Strip(GetText(Get(SelectOne(els, sel)))))

PriceSelectors(s) == IF s = "amazon_in" THEN AmazonPriceSelectors ELSE DarazPriceSelectors

\* The values of the price strategies in priority order, the currency span last.
PriceValues(s, els) ==
  [k \in 1..Len(PriceSelectors(s)) |-> TextValue(els, PriceSelectors(s)[k])]
    \o <<TextValue(els, IF s = "amazon_in" THEN "span:rupee" ELSE "span:npr")>>

\* The values of the Amazon rating strategies, the title attribute last.
AmazonRatingValues(els) ==
  [k \in 1..Len(AmazonRatingSelectors) |-> NumberValue(els, AmazonRatingSelectors[k])]
    \o <<IF NoAttrValue(els, "class~star", "title") THEN None
         ELSE RatingMatch(Attr(Get(SelectOne(els, "class~star")), "title"))>>

\* The values of the Amazon review-count strategies, the nearby-text span last.
AmazonReviewValues(els) ==
  [k \in 1..Len(AmazonReviewSelectors) |-> CountValue(els, AmazonReviewSelectors[k])]
    \o <<IF IsNone(SelectOne(els, "span:reviews")) THEN None
         ELSE CountMatch(GetText(Get(SelectOne(els, "span:reviews"))))>>

\* A strategy that produced a value was the last one evaluated and its value is stored.
Kept(tried, vals, stored) ==
  \A k \in 1..Len(tried) :
    ~IsNone(vals[tried[k]]) => (k = Len(tried) /\ stored = vals[tried[k]])

\* The content of the card a returned listing record was built from.
CardOf(r) == LastItems[Get(r.rank)].els

\* C19: for price, rating and review_count of a listing card, once a strategy has
\* produced a value (0 and 0.0 included) no later strategy of the field is evaluated
\* and the record stores that value.
C19_ShortCircuit ==
  (pc = "done" /\ LastIsListing /\ LastParsed) =>
    \A j \in 1..Len(result) :
      /\ Kept(PriceTried(CardOf(result[j]), PriceSelectors(site)),
              PriceValues(site, CardOf(result[j])), result[j].price)
      /\ site = "amazon_in" =>
           /\ Kept(AmazonRatingTried(CardOf(result[j])),
                   AmazonRatingValues(CardOf(result[j])), result[j].rating)
           /\ Kept(AmazonReviewTried(CardOf(result[j])),
                   AmazonReviewValues(CardOf(result[j])), result[j].review_count)

\* The first value, in priority order, of a sequence of strategy values.
FirstHit(vals) ==
  LET hit == {k \in 1..Len(vals) : ~IsNone(vals[k])}
  IN  IF hit = {} THEN None ELSE vals[Min(hit)]

TitleSelector(s) ==
  IF s = "amazon_in" THEN ".a-size-medium, .a-size-base, .a-link-normal > span"
  ELSE ".c16H9d, .c3KeDq, .c16TX_"

\* The values of the title strategies in priority order: the title element, the
\* image's alt text, the card's own text; None where the result is empty.
TitleValues(s, els) ==
  LET val(t) == IF Truthy(t) THEN Some(t) ELSE None
  IN  << val(ListingTitleOf(SelectOne(els, TitleSelector(s)))),
         val(ListingTitleOf(SelectOne(els, "img[alt]"))),
         val(Prefix(Strip(ConcatText(els)), TitleCap)) >>

\* C20: a title or price strategy whose element has an empty text is no hit: the
\* field's value is that of the first strategy in priority order with a non-empty
\* result.
C20_FirstNonEmptyWins ==
  (pc = "done" /\ LastIsListing /\ LastParsed) =>
    \A j \in 1..Len(result) :
      /\ result[j].price = FirstHit(PriceValues(site, CardOf(result[j])))
      /\ ~IsNone(FirstHit(TitleValues(site, CardOf(result[j])))) =>
           result[j].title = Get(FirstHit(TitleValues(site, CardOf(result[j]))))

\* C15: get_page(path, retry = n) makes at most n attempts, returns the response of
\* the first successful one, returns None after n failed attempts, never raises, and
\* every call returns.
C15_BoundedRetries ==
  /\ [](/\ Len(outcomes) <= retry
        /\ fpc # "raised"
        /\ \A k \in 1..(Len(outcomes) - 1) : outcomes[k] # "ok"
        /\ fpc = "returned" =>
             IF Len(outcomes) > 0 /\ outcomes[Len(outcomes)] = "ok"
             THEN response = Some([url |-> fetch_url, attempt |-> Len(outcomes) - 1])
             ELSE response = None /\ Len(outcomes) = retry)
  /\ <>(fpc = "returned")

\* Three attempts failed and the call returned None.
C15_Witness ==
  /\ fpc = "returned"
  /\ retry = 3
  /\ outcomes = <<"timeout", "http_error", "timeout">>
  /\ slept = <<1, 2>>
  /\ response = None

\* The positions of s that hold a digit or a decimal point, and the string they spell.
NumericPositions(s) == {i \in 1..Len(s) : Ch(s, i) \in DigitChars \cup {"."}}

IsResidual(r, s) ==
  /\ Len(r) = Cardinality(NumericPositions(s))
  /\ \A i \in NumericPositions(s) :
       Ch(r, Cardinality({j \in NumericPositions(s) : j <= i})) = Ch(s, i)

Points(r) == Cardinality({i \in 1..Len(r) : Ch(r, i) = "."})

\* r has the form digits[.digits]
IsPlainNumber(r) ==
  /\ Len(r) > 0
  /\ IsDigit(Ch(r, 1)) /\ IsDigit(Ch(r, Len(r)))
  /\ Points(r) <= 1

\* The decimal numbers a and b ([num, exp]) are equal.
SameNumber(a, b) == a.num * (10 ^ b.exp) = b.num * (10 ^ a.exp)

\* The number the plain literal r denotes.
PlainValue(r) ==
  LET dot == {i \in 1..Len(r) : Ch(r, i) = "."}
      p == IF dot = {} THEN Len(r) + 1 ELSE Min(dot)
  IN  [num |-> DigitsVal(Slice(r, 1, p - 1)) * (10 ^ (Len(r) + 1 - p))
                 + 10 * DigitsVal(Slice(r, p + 1, Len(r))),
       exp |-> Len(r) + 1 - p]

\* C16: extract_numeric_price (and get_numeric_price) never raises; it returns None
\* for an absent or empty input, for an empty residual and for a residual with more
\* than one decimal point; for a residual digits[.digits] it returns that number,
\* 1499.00 for "INR1,499.00".
C16_NumericPrice ==
  ppc # "idle" =>
    LET out == Get(numeric)
        r == ReSubNonNumeric(Get(price_str))
    IN  /\ ~out.raised
        /\ (IsNone(price_str) \/ Get(price_str) = "") => IsNone(out.value)
        /\ ~IsNone(price_str) =>
             /\ IsResidual(r, Get(price_str))
             /\ (r = "" \/ Points(r) > 1) => IsNone(out.value)
             /\ (Get(price_str) # "" /\ IsPlainNumber(r)) =>
                  ~IsNone(out.value) /\ SameNumber(Get(out.value), PlainValue(r))
             /\ Get(price_str) = "INR1,499.00" =>
                  ~IsNone(out.value) /\ SameNumber(Get(out.value), [num |-> 1499, exp |-> 0])

\* The analyzer was given "INR1,499.00" and returned 1499.00.
C16_Witness ==
  /\ ppc = "extracted"
  /\ price_str = Some("INR1,499.00")
  /\ numeric = Some(Returned(Some([num |-> 149900, exp |-> 2])))

\* A field value that is present and not empty.
NonEmpty(v) == ~IsNone(v) /\ Get(v) # ""

\* C11: a call of get_product_details leaves description, features and availability
\* as they were when they were non-empty before the call.
C11_EnrichmentOnlyAdds ==
  dpc = "returned" =>
    /\ NonEmpty(Get(before).product.description) =>
         product.description = Get(before).product.description
    /\ Len(Get(before).product.features) > 0 =>
         product.features = Get(before).product.features
    /\ NonEmpty(Get(before).product.availability) =>
         product.availability = Get(before).product.availability

\* C12: when the detail-page fetch fails, get_product_details leaves every field of
\* the record as it was.
C12_FailedFetchChangesNothing ==
  (dpc = "returned" /\ ~Get(page).ok) =>
    /\ product = Get(before).product
    /\ extras = Get(before).extras

\* A fetch failed on a record whose category, description, features and availability
\* were all filled in.
C12_Witness ==
  /\ dpc = "returned"
  /\ ~Get(page).ok
  /\ NonEmpty(Get(before).product.category)
  /\ NonEmpty(Get(before).product.description)
  /\ Len(Get(before).product.features) > 0
  /\ NonEmpty(Get(before).product.availability)
  /\ NonEmpty(product.category) /\ NonEmpty(product.description)

\* C18: load_latest_products(site) right after the last save for that site returns
\* the saved records, same length and order and equal field by field, and
\* from_dict(to_dict(p)) = p for each of them.
C18_RoundTrip ==
  (rpc = "loaded" /\ ~IsNone(lastSaved[Get(loaded).site_name])) =>
    LET saved == Get(lastSaved[Get(loaded).site_name])
        got == Get(loaded).products
    IN  /\ Len(got) = Len(saved)
        /\ \A k \in 1..Len(saved) :
             /\ \A f \in DOMAIN FieldType : got[k][f] = saved[k][f]
             /\ FromDict(ToDict(saved[k]), now) = Returned(saved[k])

\* Two saves for one site, in different seconds, and a load one second later that
\* returned the two records of the second save.
C18_Witness ==
  /\ rpc = "loaded"
  /\ now = 2
  /\ Cardinality(Glob(files, Get(loaded).site_name)) = 2
  /\ Len(Get(loaded).products) = 2
  /\ Get(loaded).products[1] # Get(loaded).products[2]
  /\ Len(Get(loaded).products[1].features) = 2
  /\ Get(loaded).products[2].rating = Some(450)

\* The candidates of the tier last requested and its cap.
LastCandidates == IF LastIsListing THEN ListingCandidates(site) ELSE HomepageCandidates(site)

LastCap == IF LastIsListing THEN ListingCap ELSE HomepageCap

\* The candidates, by position, that match at least one node of the document.
MatchingCandidates(nodes, cands) ==
  {k \in 1..Len(cands) : \E n \in 1..Len(nodes) : Matches(cands[k], nodes[n])}

\* The nodes matched by the first matching candidate, in document order.
ChosenCards(nodes, cands) ==
  IF MatchingCandidates(nodes, cands) = {} THEN <<>>
  ELSE Select(nodes, cands[Min(MatchingCandidates(nodes, cands))])

FaultyAt == {p \in 1..Len(LastItems) : LastItems[p].fault}

SoundAt == {p \in 1..Len(LastItems) : ~LastItems[p].fault}

\* C22: a fault raised while the record of one listing card is built is caught at
\* that card: the card gives no record, every other card of the page, the later ones
\* included, gives one, each with rank = its document position + 1, and the ranks
\* increase strictly along the result.
C22_CardFaultSkipsCard ==
  (LastIsListing /\ LastParsed) =>
    /\ pc # "raised"
    /\ requests[NReq].n = Cardinality(SoundAt)
    /\ SoundAt # {} =>
         /\ pc = "done"
         /\ \A p \in SoundAt : \E j \in 1..Len(result) : result[j].rank = Some(p)
         /\ \A j \in 1..Len(result) : Get(result[j].rank) \notin FaultyAt
         /\ \A j \in 1..(Len(result) - 1) : Get(result[j].rank) < Get(result[j + 1].rank)

\* The second of three cards faulted; the first and the third were returned with
\* ranks 1 and 3.
C22_Witness ==
  /\ pc = "done"
  /\ LastIsListing
  /\ Len(LastItems) = 3
  /\ FaultyAt = {2}
  /\ Len(result) = 2
  /\ result[1].rank = Some(1)
  /\ result[2].rank = Some(3)

\* The item identifier of a card: asin on Amazon, product_id on Daraz.
ItemIdentifier(s, item) == IF s = "amazon_in" THEN AmazonAsin(item) ELSE DarazProductId(item)

\* C23: on a listing card whose title element and image alt text both yield nothing,
\* the title is the card's stripped full text cut to its first 100 characters; when
\* that text is empty the title is "Unknown Product " followed by the item identifier
\* if the card has one, else by the card's 1-based index.
C23_TitleFallback ==
  (pc = "done" /\ LastIsListing /\ LastParsed) =>
    \A j \in 1..Len(result) :
      LET p == Get(result[j].rank)
          els == LastItems[p].els
          text == Strip(ConcatText(els))
          ident == ItemIdentifier(site, LastItems[p])
      IN  (IsNone(TitleValues(site, els)[1]) /\ IsNone(TitleValues(site, els)[2])) =>
            result[j].title =
              IF text # "" THEN SubSeq(text, 1, IF Len(text) < TitleCap THEN Len(text) ELSE TitleCap)
              ELSE IF ~IsNone(ident) THEN "Unknown Product " \o Get(ident)
              ELSE "Unknown Product " \o IntToStr(p)

\* A card without title markup whose text, stripped, is longer than 100 characters was
\* returned with a title of exactly 100 characters.
C23_Witness ==
  /\ pc = "done"
  /\ LastIsListing
  /\ Len(result) = 1
  /\ IsNone(TitleValues(site, LastItems[1].els)[1])
  /\ IsNone(TitleValues(site, LastItems[1].els)[2])
  /\ Len(Strip(ConcatText(LastItems[1].els))) > TitleCap
  /\ Len(result[1].title) = TitleCap

\* An absolute http URL: it starts with the scheme and "://".
IsAbsoluteHttp(u) == StartsWith(u, "http://") \/ StartsWith(u, "https://")

\* The path put before the item identifier, and the generic listing path, of a
\* synthesized url.
IdentPath(s) == IF s = "amazon_in" THEN "/dp/" ELSE "/products/"

GenericPath(s) == IF s = "amazon_in" THEN "/s?k=trending" ELSE "/trending-products/"

\* C24: the url of a listing record is the card's link target when that is absolute
\* and base URL + target otherwise; without a link it is base URL + identifier path,
\* or the generic listing URL when the card has no identifier; it is always absolute.
C24_UrlResolution ==
  (pc = "done" /\ LastIsListing /\ LastParsed) =>
    \A j \in 1..Len(result) :
      LET item == LastItems[Get(result[j].rank)]
          link == SelectOne(item.els, "a[href]")
          ident == ItemIdentifier(site, item)
      IN  /\ result[j].url =
               IF ~IsNone(link)
               THEN IF IsAbsoluteHttp(Attr(Get(link), "href")) THEN Attr(Get(link), "href")
                    ELSE BaseUrl(site) \o Attr(Get(link), "href")
               ELSE IF ~IsNone(ident) THEN BaseUrl(site) \o IdentPath(site) \o Get(ident)
               ELSE BaseUrl(site) \o GenericPath(site)
          /\ IsAbsoluteHttp(result[j].url)

\* The stripped text of the last element of the trail whose tag is among tags; None
\* for a page without breadcrumb or a trail without such an element.
LastCrumbText(crumb, tags) ==
  IF IsNone(crumb) THEN None
  ELSE LET at == {k \in 1..Len(Get(crumb)) : Get(crumb)[k].tag \in tags}
       IN  IF at = {} THEN None
           ELSE Some(Strip(Get(crumb)[CHOOSE k \in at : \A h \in at : h <= k].text))

\* C25 (as claimed): all records of one listing page carry the same category, the
\* text of the last link of the page's breadcrumb trail, absent when the page has no
\* breadcrumb, whatever the cards hold.
C25_CategoryIsLastLink ==
  (pc = "done" /\ LastIsListing /\ LastParsed) =>
    \A j \in 1..Len(result) : result[j].category = LastCrumbText(Get(doc).crumb, {"a"})

\* The tags of the breadcrumb entries an adapter reads.
CrumbTags(s) == IF s = "amazon_in" THEN {"a"} ELSE {"a", "span"}

\* C25 (amended): all records of one listing page carry the same category, the text
\* of the last entry of the page's breadcrumb trail, an entry being a link on Amazon
\* and a link or a span on Daraz; absent when the page has no breadcrumb or the trail
\* no entry, whatever the cards hold.
C25_CategoryIsLastEntry ==
  (pc = "done" /\ LastIsListing /\ LastParsed) =>
    \A j \in 1..Len(result) :
      result[j].category = LastCrumbText(Get(doc).crumb, CrumbTags(site))

\* Two cards of different content, one holding a link of its own, on a page whose
\* trail has two links: both records carry the text of the second link.
C25_Witness ==
  /\ pc = "done"
  /\ LastIsListing
  /\ Len(result) >= 2
  /\ LastItems[1].els # LastItems[2].els
  /\ ~IsNone(Get(doc).crumb)
  /\ Len(Select(Get(Get(doc).crumb), "a")) = 2
  /\ result[1].category = Some("Electronics")
  /\ result[2].category = Some("Electronics")

\* Is a a subsequence of b (the items of a, in their order, among those of b)?
RECURSIVE IsSubsequence(_, _)
IsSubsequence(a, b) ==
  IF Len(a) = 0 THEN TRUE
  ELSE IF Len(b) = 0 THEN FALSE
  ELSE IF Head(a) = Head(b) THEN IsSubsequence(Tail(a), Tail(b))
  ELSE IsSubsequence(a, Tail(b))

\* The stripped texts of the feature elements of the detail page last served, in
\* document order.
PageFeatureTexts ==
  LET elems == Select(Get(page).els, FeatureSelector(site))
  IN  [k \in 1..Len(elems) |-> Strip(elems[k].text)]

\* C26: after any number of get_product_details calls the record has at most 10
\* features; the features a call put in are stripped texts longer than 5 characters
\* of the page's feature elements, in document order.
C26_FeaturesBounded ==
  /\ dpc = "idle" => Len(product.features) = 0
  /\ dpc = "returned" =>
       /\ Len(product.features) <= FeatureCap
       /\ \A k \in 1..Len(product.features) :
            /\ Len(product.features[k]) > MinFeatureLen
            /\ Strip(product.features[k]) = product.features[k]
       /\ product.features # Get(before).product.features =>
            IsSubsequence(product.features, PageFeatureTexts)

\* A page with more than 10 feature elements, more than 10 of them long enough, left
\* the record with features of the first 10 only, on a record that had other features.
C26_Witness ==
  /\ dpc = "returned"
  /\ Len(PageFeatureTexts) > FeatureCap
  /\ Cardinality({k \in 1..Len(PageFeatureTexts) : Len(PageFeatureTexts[k]) > MinFeatureLen})
       > FeatureCap
  /\ Len(Get(before).product.features) \in 1..2
  /\ Len(product.features) = FeatureCap - 1

\* The fields get_product_details has no business with.
FrameFields ==
  {"title", "url", "price", "rating", "review_count", "image_url", "rank", "source",
   "extracted_at"}

\* C27: get_product_details leaves title, url, price, rating, review_count,
\* image_url, rank, source and extracted_at as they were, whether the fetch failed,
\* the extraction faulted or the page was read; extracted_at stays the time of
\* construction.
C27_FrameFieldsUnchanged ==
  dpc = "returned" =>
    /\ \A f \in FrameFields : product[f] = Get(before).product[f]
    /\ product.extracted_at = Isoformat(0)

\* The second call on a record: the first one filled in the description, this one
\* read a full page, and the record still carries its construction time.
C27_Witness ==
  /\ dpc = "returned"
  /\ Get(page).ok /\ ~Get(page).parseFault /\ Get(page).faultAt = 0
  /\ Len(Get(page).els) >= 4
  /\ ~IsNone(Get(before).product.description)
  /\ product.description # Get(before).product.description
  /\ ~IsNone(product.availability)
  /\ product.extracted_at = "T0"
  /\ ~IsNone(product.rank)

\* C28: when the extraction faults after the detail page was fetched, the call
\* returns and every field of the record is as it was before the call.
C28_AllOrNothingOnError ==
  (dpc = "returned" /\ Get(page).ok /\ (Get(page).parseFault \/ Get(page).faultAt > 0)) =>
    /\ product = Get(before).product
    /\ extras = Get(before).extras

\* The image elements of a card, in document order.
Images(els) == SelectSeq(els, LAMBDA e : e.tag = "img")

\* C29: a Daraz card, on a listing page or on the homepage, whose image element has
\* a data-src attribute and no src attribute yields a record whose image_url is the
\* data-src value.
C29_LazyImageFallback ==
  (pc = "done" /\ LastParsed /\ site = "daraz_np") =>
    \A j \in 1..Len(result) :
      IsSentinel(result[j]) \/
        LET imgs == Images(LastItems[Get(result[j].rank)].els)
        IN  (Len(imgs) > 0 /\ HasAttr(imgs[1], "data-src") /\ ~HasAttr(imgs[1], "src")) =>
              result[j].image_url = Some(Attr(imgs[1], "data-src"))

\* Two outcomes of a normalizer agree: neither raised, and both are nothing or both
\* the same number.
SameOutcome(a, b) ==
  /\ ~a.raised /\ ~b.raised
  /\ IsNone(a.value) <=> IsNone(b.value)
  /\ ~IsNone(a.value) => SameNumber(Get(a.value), Get(b.value))

\* C30: on every input the outcome of whichever normalizer was called is the outcome
\* of each of the three: get_numeric_price, extract_numeric_price and extract_numeric
\* return nothing for the same inputs and the same number otherwise.
C30_NormalizersAgree ==
  ppc # "idle" =>
    /\ SameOutcome(Get(numeric), GetNumericPrice(price_str))
    /\ SameOutcome(Get(numeric), ExtractNumericPrice(price_str))
    /\ SameOutcome(Get(numeric), ExtractNumeric(price_str))

\* The utility was given "12.50" and returned 12.5.
C30_Witness ==
  /\ ppc = "util"
  /\ price_str = Some("12.50")
  /\ ~IsNone(Get(numeric).value)
  /\ SameNumber(Get(Get(numeric).value), [num |-> 125, exp |-> 1])

====
